---- MODULE Spec2Model ----
(***************************************************************************)
(* Tracker state engine of obsidian-habit-notes: the ledger codec and the  *)
(* read-modify-write of TrackerFileService, the TrackerDataCache and the   *)
(* StateManager LRU cache.  Document text is a sequence of one-character   *)
(* strings, so the regular expressions and the escaping of the source are  *)
(* computed character by character.                                        *)
(***************************************************************************)
EXTENDS Integers, Sequences, FiniteSets, TLC

(***************************************************************************)
(* Characters and text helpers (JavaScript String methods).                *)
(***************************************************************************)
NL == "\n"
CR == "\r"
TAB == "\t"
BS == "\\"
DQ == "\""
SQ == "'"
SP == " "

\* \s of the regular expressions and the set String.prototype.trim removes
IsWs(c) == c \in {SP, NL, CR, TAB}

Digits == <<"0", "1", "2", "3", "4", "5", "6", "7", "8", "9">>

IsDigit(c) == \E i \in 1..10 : Digits[i] = c

DigitVal(c) == (CHOOSE i \in 1..10 : Digits[i] = c) - 1

\* the characters of the model in UTF-16 code unit order
CodeOrder ==
  <<TAB, NL, CR, SP, DQ, "#", "$", "&", SQ, "-", ".", "/",
    "0", "1", "2", "3", "4", "5", "6", "7", "8", "9", ":",
    "B", "L", "R", "V", BS,
    "a", "b", "c", "d", "e", "f", "g", "h", "i", "j", "k", "l", "m",
    "n", "o", "p", "q", "r", "s", "t", "u", "v", "w", "x", "y", "z", "{", "}">>

CharCode(c) == CHOOSE i \in 1..Len(CodeOrder) : CodeOrder[i] = c

\* the element of a set of one element.  A const of the code is written
\* The({e : x \in {v}}): v is evaluated once and e is computed from its value
The(S) == CHOOSE r \in S : TRUE

Min(S) == The({CHOOSE x \in T : \A y \in T : x <= y
              : T \in {S}})

Max(S) == The({CHOOSE x \in T : \A y \in T : x >= y
              : T \in {S}})

\* the smallest position of S, none when S is empty
FirstOf(S, none) == The({IF T = {} THEN none ELSE Min(T)
                        : T \in {S}})

\* s.slice(i - 1): the text from position i (1-based) to the end
From(s, i) == SubSeq(s, i, Len(s))

\* s.startsWith(p, i - 1)
StartsWithAt(s, i, p) ==
  /\ i >= 1
  /\ i + Len(p) - 1 <= Len(s)
  /\ SubSeq(s, i, i + Len(p) - 1) = p

StartsWith(s, p) == StartsWithAt(s, 1, p)

EndsWith(s, p) == StartsWithAt(s, Len(s) - Len(p) + 1, p)

\* s.indexOf(p, i - 1) + 1: the first position >= i where p occurs, 0 if none
IndexOfFrom(s, p, i) == FirstOf({j \in i..Len(s) : StartsWithAt(s, j, p)}, 0)

\* the length of the run of whitespace that starts at position i
WsRun(s, i) == FirstOf({j \in i..Len(s) : ~IsWs(s[j])}, Len(s) + 1) - i

\* the first position >= i that holds a newline, Len(s) + 1 if none
LineEnd(s, i) == FirstOf({j \in i..Len(s) : s[j] = NL}, Len(s) + 1)

\* String.prototype.trim
Trim(s) ==
  The({IF keep = {} THEN <<>> ELSE SubSeq(s, Min(keep), Max(keep))
      : keep \in {{j \in 1..Len(s) : ~IsWs(s[j])}}})

\* String.prototype.trimEnd
TrimEnd(s) ==
  The({IF keep = {} THEN <<>> ELSE SubSeq(s, 1, Max(keep))
      : keep \in {{j \in 1..Len(s) : ~IsWs(s[j])}}})

\* s.replace(/pat/g, rep) for a literal pattern: leftmost matches, not overlapping
RECURSIVE ReplaceAll(_, _, _)
ReplaceAll(s, pat, rep) ==
  The({The({IF i = 0 THEN t
            ELSE SubSeq(t, 1, i - 1) \o rep
                   \o ReplaceAll(From(t, i + Len(pat)), pat, rep)
            : i \in {IndexOfFrom(t, pat, 1)}})
       : t \in {s}})

\* s.split(/\n/)
RECURSIVE SplitLines(_)
SplitLines(s) ==
  The({The({IF e > Len(t) THEN <<t>>
      ELSE <<SubSeq(t, 1, e - 1)>> \o SplitLines(From(t, e + 1))
        : e \in {LineEnd(t, 1)}})
      : t \in {s}})

\* the comparison of Array.prototype.sort without a comparator: code unit
\* order at the first position that differs, the shorter text first
StrLess(a, b) ==
  The({IF d = 0 THEN Len(a) < Len(b)
       ELSE CharCode(a[d]) < CharCode(b[d])
       : d \in {FirstOf({i \in 1..Min({Len(a), Len(b)}) : a[i] # b[i]}, 0)}})

\* Object.keys(data).sort()
RECURSIVE SortKeys(_)
SortKeys(K) ==
  The({IF S = {} THEN <<>>
    ELSE The({<<k>> \o SortKeys(S \ {k})
             : k \in {CHOOSE x \in S : \A y \in S \ {x} : StrLess(x, y)}})
      : S \in {K}})

(***************************************************************************)
(* Ledger values: a number or a string; Null is the absent entry.          *)
(***************************************************************************)
Num(n) == [t |-> "num", n |-> n, s |-> <<>>]

Str(s) == [t |-> "str", n |-> 0, s |-> s]

Null == [t |-> "null", n |-> 0, s |-> <<>>]

RECURSIVE DecimalValue(_, _)
DecimalValue(s, acc) ==
  The({The({IF t = <<>> THEN n ELSE DecimalValue(Tail(t), n * 10 + DigitVal(Head(t)))
        : n \in {acc}})
      : t \in {s}})

\* parseMaybeNumber: Number(v) skips surrounding whitespace, reads the empty
\* string as 0 and a run of decimal digits as its value; any other text of
\* the model's characters is NaN and stays a string.
parseMaybeNumber(v) ==
  The({The({IF s = <<>> THEN Num(0)
      ELSE IF \A i \in 1..Len(s) : IsDigit(s[i]) THEN Num(DecimalValue(s, 0))
      ELSE Str(text)
        : s \in {Trim(text)}})
      : text \in {v}})

\* `${value}` for a non-negative integer
RECURSIVE NumberToString(_)
NumberToString(n) ==
  The({IF k < 10 THEN <<Digits[k + 1]>>
    ELSE NumberToString(k \div 10) \o <<Digits[(k % 10) + 1]>>
      : k \in {n}})

(***************************************************************************)
(* Ledger codec (TrackerFileService.parseFrontmatterData and               *)
(* formatDataToYaml).  A ledger is a function from key text to value.      *)
(***************************************************************************)
DataWord == <<"d", "a", "t", "a", ":">>

EmptyObject == <<"{", "}">>

NoMatch == [ok |-> FALSE, start |-> 0, end |-> 0, hasGroup |-> FALSE, gs |-> 0, ge |-> 0]

\* (?:\s+[^\n]+\n?)* from position q: the position after the last iteration.
\* An iteration takes the longest whitespace run that leaves a character
\* other than a newline to follow, then the rest of that line and its newline.
RECURSIVE DataStarEnd(_, _)
DataStarEnd(s, q) ==
  The({The({The({IF T = {} THEN p
        ELSE The({DataStarEnd(s, IF e <= Len(s) THEN e + 1 ELSE e)
                 : e \in {LineEnd(s, p + Max(T))}})
          : T \in {{t \in 1..r : p + t <= Len(s) /\ s[p + t] # NL}}})
        : r \in {WsRun(s, p)}})
      : p \in {q}})

\* /data:\s*(?:\{\}|(?:\n((?:\s+[^\n]+\n?)*)))/ tried with "data:" at position i:
\* \s* is greedy, so {} is tried after the whole whitespace run and the newline
\* of the second alternative is the last newline of that run.
DataMatchAt(s, i) ==
  The({The({The({IF StartsWithAt(s, p + r, EmptyObject)
        THEN [ok |-> TRUE, start |-> i, end |-> p + r + 2, hasGroup |-> FALSE,
              gs |-> 0, ge |-> 0]
        ELSE IF nls # {}
        THEN The({The({[ok |-> TRUE, start |-> i, end |-> e, hasGroup |-> TRUE,
                  gs |-> q, ge |-> e]
                   : e \in {DataStarEnd(s, q)}})
                 : q \in {p + Max(nls) + 1}})
        ELSE NoMatch
          : nls \in {{k \in 0..(r - 1) : s[p + k] = NL}}})
        : r \in {WsRun(s, p)}})
      : p \in {i + Len(DataWord)}})

\* s.match(/data:\s*(?:\{\}|(?:\n((?:\s+[^\n]+\n?)*)))/): the leftmost match;
\* the match is s[start..end-1] and group 1 is s[gs..ge-1]
DataMatch(s) ==
  The({IF hits = {} THEN NoMatch ELSE DataMatchAt(s, Min(hits))
      : hits \in {{i \in 1..Len(s) : StartsWithAt(s, i, DataWord) /\ DataMatchAt(s, i).ok}}})

\* frontmatter.match(/data:\s*\{\}/)
HasEmptyData(s) ==
  \E i \in 1..Len(s) :
    /\ StartsWithAt(s, i, DataWord)
    /\ StartsWithAt(s, i + Len(DataWord) + WsRun(s, i + Len(DataWord)), EmptyObject)

NoPair == [ok |-> FALSE, key |-> <<>>, value |-> <<>>]

\* \s*:\s*(.+)$ from position q of a trimmed line: the text after the colon
\* and its whitespace, which "." must match up to the end of the line
AfterColon(t, q) ==
  The({The({IF c <= Len(t) /\ t[c] = ":" /\ u <= Len(t)
         /\ \A j \in u..Len(t) : t[j] \notin {NL, CR}
      THEN [ok |-> TRUE, value |-> From(t, u)]
      ELSE [ok |-> FALSE, value |-> <<>>]
        : u \in {c + 1 + WsRun(t, c + 1)}})
      : c \in {q + WsRun(t, q)}})

\* trimmed.match(/^["']([^"']+)["']\s*:\s*(.+)$/)
QuotedKeyMatch(t) ==
  The({IF t # <<>> /\ t[1] \in {DQ, SQ} /\ q >= 3
    THEN The({IF rest.ok
           THEN [ok |-> TRUE, key |-> SubSeq(t, 2, q - 1), value |-> rest.value]
           ELSE NoPair
             : rest \in {AfterColon(t, q + 1)}})
    ELSE NoPair
      : q \in {FirstOf({j \in 2..Len(t) : t[j] \in {DQ, SQ}}, 0)}})

\* trimmed.match(/^([^:]+?)\s*:\s*(.+)$/): the lazy key ends before the first colon
BareKeyMatch(t) ==
  The({IF c >= 2
    THEN The({IF rest.ok
           THEN [ok |-> TRUE, key |-> SubSeq(t, 1, c - 1), value |-> rest.value]
           ELSE NoPair
             : rest \in {AfterColon(t, c)}})
    ELSE NoPair
      : c \in {FirstOf({j \in 1..Len(t) : t[j] = ":"}, 0)}})

UnescapeQuotesOnly(value) ==
  ReplaceAll(ReplaceAll(value, <<BS, DQ>>, <<DQ>>), <<BS, SQ>>, <<SQ>>)

\* lines 45-51: matching quotes are stripped and \" and \' are unescaped;
\* the escapes \\, \n and \r of formatDataToYaml are left as they are
UnquoteValue(value) ==
  The({IF \/ (StartsWith(v, <<DQ>>) /\ EndsWith(v, <<DQ>>))
       \/ (StartsWith(v, <<SQ>>) /\ EndsWith(v, <<SQ>>))
    THEN UnescapeQuotesOnly(SubSeq(v, 2, Len(v) - 1))
    ELSE v
      : v \in {value}})

\* the body of dataLines.forEach for one line, applied to the object so far
ParseLine(data, line) ==
  The({IF trimmed = <<>> \/ StartsWith(trimmed, <<"#">>) \/ trimmed = EmptyObject
    THEN data
    ELSE The({The({IF m.ok
             THEN (Trim(m.key) :> parseMaybeNumber(UnquoteValue(Trim(m.value)))) @@ data
             ELSE data
               : m \in {IF match.ok THEN match ELSE BareKeyMatch(trimmed)}})
             : match \in {QuotedKeyMatch(trimmed)}})
      : trimmed \in {Trim(line)}})

RECURSIVE ParseLines(_, _)
ParseLines(data, lines) ==
  The({The({IF ls = <<>> THEN d
      ELSE ParseLines(ParseLine(d, Head(ls)), Tail(ls))
        : d \in {data}})
      : ls \in {lines}})

EmptyLedger == <<>>

parseFrontmatterData(frontmatter) ==
  The({IF ~dataMatch.ok \/ HasEmptyData(frontmatter) \/ ~dataMatch.hasGroup
       \/ dataMatch.ge = dataMatch.gs
    THEN EmptyLedger
    ELSE ParseLines(EmptyLedger,
                    SplitLines(SubSeq(frontmatter, dataMatch.gs, dataMatch.ge - 1)))
      : dataMatch \in {DataMatch(frontmatter)}})

EscapeValue(value) ==
  ReplaceAll(ReplaceAll(ReplaceAll(ReplaceAll(value,
    <<BS>>, <<BS, BS>>), <<DQ>>, <<BS, DQ>>), <<NL>>, <<BS, "n">>), <<CR>>, <<BS, "r">>)

\* one line of the data section
FormatEntry(date, value) ==
  <<SP, SP, DQ>> \o date \o <<DQ, ":", SP>>
    \o (IF value.t = "str" THEN <<DQ>> \o EscapeValue(value.s) \o <<DQ>>
        ELSE NumberToString(value.n))
    \o <<NL>>

RECURSIVE FormatEntries(_, _)
FormatEntries(data, sortedDates) ==
  The({IF dates = <<>> THEN <<>>
    ELSE FormatEntry(Head(dates), data[Head(dates)])
           \o FormatEntries(data, Tail(dates))
      : dates \in {sortedDates}})

formatDataToYaml(data) ==
  The({IF DOMAIN d = {} THEN DataWord \o <<SP>> \o EmptyObject \o <<NL>>
    ELSE DataWord \o <<NL>> \o FormatEntries(d, SortKeys(DOMAIN d))
      : d \in {data}})

(***************************************************************************)
(* The document: /^---\n([\s\S]*?)\n---/ and the text writeLogLine builds. *)
(***************************************************************************)
Fence == <<"-", "-", "-">>

\* content.match(/^---\n([\s\S]*?)\n---/): the lazy group ends at the first
\* "\n---" after the opening fence; close = 0 when there is no match
FrontmatterMatch(content) ==
  The({[ok |-> close # 0,
          frontmatter |-> IF close = 0 THEN <<>> ELSE SubSeq(content, 5, close - 1),
          body |-> IF close = 0 THEN <<>> ELSE From(content, close + 4)]
      : close \in {IF StartsWith(content, Fence \o <<NL>>) THEN IndexOfFrom(content, <<NL>> \o Fence, 5) ELSE 0}})

\* the replacement patterns String.prototype.replace expands in its second
\* argument: $$, $&, $1 and $' (the backquote of the fifth pattern is not a
\* character of the model).  The text up to the first pattern is copied.
RECURSIVE ExpandReplacement(_, _, _, _)
ExpandReplacement(repl, matched, group1, after) ==
  The({The({IF i = 0 THEN r
            ELSE SubSeq(r, 1, i - 1)
                   \o (CASE r[i + 1] = "$" -> <<"$">>
                         [] r[i + 1] = "&" -> matched
                         [] r[i + 1] = "1" -> group1
                         [] r[i + 1] = SQ -> after)
                   \o ExpandReplacement(From(r, i + 2), matched, group1, after)
            : i \in {FirstOf({j \in 1..(Len(r) - 1) :
                                r[j] = "$" /\ r[j + 1] \in {"$", "&", "1", SQ}}, 0)}})
       : r \in {repl}})

\* the text newFrontmatter.replace(regex, dataYamlTrimmed) gives for a match
ReplaceMatch(newFrontmatter, dataMatch, dataYamlTrimmed) ==
  The({The({The({The({before \o ExpandReplacement(dataYamlTrimmed, matched, group1, after)
                 \o after
            : group1 \in {IF dataMatch.hasGroup THEN SubSeq(newFrontmatter, dataMatch.gs, dataMatch.ge - 1) ELSE <<>>}})
          : matched \in {SubSeq(newFrontmatter, dataMatch.start, dataMatch.end - 1)}})
        : after \in {From(newFrontmatter, dataMatch.end)}})
      : before \in {SubSeq(newFrontmatter, 1, dataMatch.start - 1)}})

\* lines 142-151 of writeLogLine
ReplaceDataSection(newFrontmatter, dataYaml) ==
  The({IF dataMatch.ok
    THEN The({ReplaceMatch(newFrontmatter, dataMatch, dataYamlTrimmed)
             : dataYamlTrimmed \in {IF EndsWith(dataYaml, <<NL>>) THEN SubSeq(dataYaml, 1, Len(dataYaml) - 1) ELSE dataYaml}})
    ELSE newFrontmatter \o <<NL>> \o TrimEnd(dataYaml)
      : dataMatch \in {DataMatch(newFrontmatter)}})

\* lines 136-157 of writeLogLine for the header and the body matched
BuildContent(frontmatter, body, dateIso, value) ==
  The({The({The({The({Fence \o <<NL>> \o replaced
            \o (IF EndsWith(replaced, <<NL>>) THEN <<>> ELSE <<NL>>)
            \o Fence \o body
            : replaced \in {ReplaceDataSection(trimmed, dataYaml)}})
          : trimmed \in {Trim(frontmatter)}})
        : dataYaml \in {formatDataToYaml(data)}})
      : data \in {(dateIso :> parseMaybeNumber(value)) @@ parseFrontmatterData(frontmatter)}})

\* writeLogLine were it to format the written date alone, not the ledger it parsed
NewContentOfOneDate(content, dateIso, value) ==
  The({The({The({The({Fence \o <<NL>> \o replaced
            \o (IF EndsWith(replaced, <<NL>>) THEN <<>> ELSE <<NL>>)
            \o Fence \o m.body
            : replaced \in {ReplaceDataSection(trimmed, dataYaml)}})
          : trimmed \in {Trim(m.frontmatter)}})
        : dataYaml \in {formatDataToYaml(dateIso :> parseMaybeNumber(value))}})
      : m \in {FrontmatterMatch(content)}})

\* lines 133-157 of writeLogLine: the new text of a document that has a header
NewContent(content, dateIso, value) ==
  The({BuildContent(m.frontmatter, m.body, dateIso, value)
      : m \in {FrontmatterMatch(content)}})

\* the loader of readAllEntries, lines 98-114, on the text vault.read returned
LoadEntries(raw) ==
  The({IF m.ok THEN parseFrontmatterData(m.frontmatter) ELSE EmptyLedger
      : m \in {FrontmatterMatch(raw)}})

\* entries.get(dateIso) ?? null
ValueAt(entries, dateIso) ==
  IF dateIso \in DOMAIN entries THEN entries[dateIso] ELSE Null

(***************************************************************************)
(* The loader of getFileTypeFromFrontmatter (lines 171-202).               *)
(***************************************************************************)
LineStarts(s) == {i \in 1..Len(s) : i = 1 \/ s[i - 1] = NL}

TypeChar(c) == c \notin {DQ, SQ, SP, NL, CR, TAB}

UnitChar(c) == c \notin {DQ, SQ, NL}

NumberChar(c) == IsDigit(c) \/ c = "."

\* the character classes of the groups: [^\s"']+, [^"'\n]+, \d+ and [\d.]+
InClass(class, c) ==
  CASE class = "type" -> TypeChar(c)
    [] class = "unit" -> UnitChar(c)
    [] class = "digits" -> IsDigit(c)
    [] class = "number" -> NumberChar(c)

\* the end (exclusive) of the run of characters of a class that starts at i
ClassRunEnd(s, i, class) ==
  FirstOf({j \in i..Len(s) : ~InClass(class, s[j])}, Len(s) + 1)

\* after name:\s{k} at position p, an optional quote and a character of the class
QuotedAt(s, p, k, class, optQuote) ==
  /\ optQuote
  /\ p + k + 1 <= Len(s)
  /\ s[p + k] \in {DQ, SQ}
  /\ InClass(class, s[p + k + 1])

\* after name:\s{k} at position p, a character of the class
BareAt(s, p, k, class) == p + k <= Len(s) /\ InClass(class, s[p + k])

\* /^name:\s*["']?(class+)["']?/m tried at line start i: the start of group 1,
\* 0 when it fails.  \s* gives whitespace back until an optional quote and a
\* character of the class, or a character of the class alone, follows.
FieldGroupStart(s, i, name, class, optQuote) ==
  IF ~StartsWithAt(s, i, name) THEN 0
  ELSE The({The({IF ks = {} THEN 0
                 ELSE The({IF QuotedAt(s, p, k, class, optQuote)
                           THEN p + k + 1
                           ELSE p + k
                           : k \in {Max(ks)}})
                 : ks \in {{k \in 0..WsRun(s, p) :
                              \/ QuotedAt(s, p, k, class, optQuote)
                              \/ BareAt(s, p, k, class)}}})
            : p \in {i + Len(name)}})

\* frontmatter.match(/^name:.../m)[1] as a list of at most one text
FieldMatch(s, name, class, optQuote) ==
  The({IF hits = {} THEN <<>>
       ELSE The({<<SubSeq(s, g, ClassRunEnd(s, g, class) - 1)>>
                 : g \in {FieldGroupStart(s, Min(hits), name, class, optQuote)}})
       : hits \in {{i \in LineStarts(s) :
                      FieldGroupStart(s, i, name, class, optQuote) # 0}}})

GOOD_HABIT == <<"g", "o", "o", "d", "-", "h", "a", "b", "i", "t">>

Field(word) == word \o <<":">>

NoOpts ==
  [mode |-> <<>>, maxRating |-> <<>>, minValue |-> <<>>, maxValue |-> <<>>,
   step |-> <<>>, minLimit |-> <<>>, maxLimit |-> <<>>, unit |-> <<>>]

\* lines 176-194 on the header matched; each option is a list of at most one
\* text: empty when the option is not set
FileOptsOf(fm) ==
  The({The({[mode |-> IF typeMatch = <<>> THEN <<GOOD_HABIT>> ELSE <<Trim(typeMatch[1])>>,
       maxRating |-> FieldMatch(fm, Field(<<"m", "a", "x", "R", "a", "t", "i", "n", "g">>), "digits", FALSE),
       minValue |-> FieldMatch(fm, Field(<<"m", "i", "n", "V", "a", "l", "u", "e">>), "number", FALSE),
       maxValue |-> FieldMatch(fm, Field(<<"m", "a", "x", "V", "a", "l", "u", "e">>), "number", FALSE),
       step |-> FieldMatch(fm, Field(<<"s", "t", "e", "p">>), "number", FALSE),
       minLimit |-> FieldMatch(fm, Field(<<"m", "i", "n", "L", "i", "m", "i", "t">>), "number", FALSE),
       maxLimit |-> FieldMatch(fm, Field(<<"m", "a", "x", "L", "i", "m", "i", "t">>), "number", FALSE),
       unit |-> IF unitMatch = <<>> THEN <<>> ELSE <<Trim(unitMatch[1])>>]
        : unitMatch \in {FieldMatch(fm, Field(<<"u", "n", "i", "t">>), "unit", TRUE)}})
      : typeMatch \in {FieldMatch(fm, Field(<<"t", "y", "p", "e">>), "type", TRUE)}})

\* getFileTypeFromFrontmatter were its catch block to leave the mode unset
LoadFileOptsNoDefault(readOk, fileContent) ==
  IF ~readOk THEN NoOpts
  ELSE The({IF ~m.ok THEN [NoOpts EXCEPT !.mode = <<GOOD_HABIT>>]
            ELSE FileOptsOf(m.frontmatter)
            : m \in {FrontmatterMatch(fileContent)}})

\* getFileTypeFromFrontmatter when vault.read may have thrown (lines 172-201)
LoadFileOpts(readOk, fileContent) ==
  IF ~readOk THEN [NoOpts EXCEPT !.mode = <<GOOD_HABIT>>]
  ELSE The({IF ~m.ok THEN [NoOpts EXCEPT !.mode = <<GOOD_HABIT>>]
         ELSE FileOptsOf(m.frontmatter)
           : m \in {FrontmatterMatch(fileContent)}})

\* the loader of readAllEntries when vault.read may have thrown (lines 99-114)
LoadLedger(readOk, raw) == IF readOk THEN LoadEntries(raw) ELSE EmptyLedger

(***************************************************************************)
(* Date/Time abstraction (DateService and its DateWrapper).  A date is a   *)
(* day of the calendar, counted from the first day of FirstYear, and a     *)
(* time of day; midnight is time 0.  The formats are those the statistics  *)
(* service names.                                                          *)
(***************************************************************************)
ISO == "YYYY-MM-DD"

DMY == "DD.MM.YYYY"

MDY == "MM/DD/YYYY"

YMD == "YYYY/MM/DD"

FirstYear == 2023

LastYear == 2024

IsLeap(y) == (y % 4 = 0 /\ y % 100 # 0) \/ y % 400 = 0

MonthLength(y, m) ==
  IF m = 2 THEN (IF IsLeap(y) THEN 29 ELSE 28)
  ELSE IF m \in {4, 6, 9, 11} THEN 30 ELSE 31

YearLength(y) == IF IsLeap(y) THEN 366 ELSE 365

RECURSIVE DaysBeforeYear(_)
DaysBeforeYear(y) ==
  IF y <= FirstYear THEN 0 ELSE DaysBeforeYear(y - 1) + YearLength(y - 1)

RECURSIVE DaysBeforeMonth(_, _)
DaysBeforeMonth(y, m) ==
  IF m <= 1 THEN 0 ELSE DaysBeforeMonth(y, m - 1) + MonthLength(y, m - 1)

\* the day number of a calendar date
DayNumber(y, m, d) == DaysBeforeYear(y) + DaysBeforeMonth(y, m) + d - 1

\* year, month and day of month of a day number
Civil(n) ==
  The({The({[year |-> y, month |-> m, date |-> n - DayNumber(y, m, 1) + 1]
            : m \in {CHOOSE k \in 1..12 :
                       /\ DayNumber(y, k, 1) <= n
                       /\ n < DayNumber(y, k, 1) + MonthLength(y, k)}})
       : y \in {CHOOSE k \in FirstYear..LastYear :
                  DaysBeforeYear(k) <= n /\ n < DaysBeforeYear(k + 1)}})

\* String(n).padStart(width, "0")
RECURSIVE Pad(_, _)
Pad(n, width) ==
  IF width = 0 THEN <<>> ELSE Pad(n \div 10, width - 1) \o <<Digits[(n % 10) + 1]>>

\* a DateWrapper: invalid, or a day and a time of day
InvalidDate == [valid |-> FALSE, day |-> 0, time |-> 0]

DateAt(day, time) == [valid |-> TRUE, day |-> day, time |-> time]

\* DateService.format(date, format)
DateFormat(date, format) ==
  The({CASE format = ISO ->
              Pad(c.year, 4) \o <<"-">> \o Pad(c.month, 2) \o <<"-">> \o Pad(c.date, 2)
         [] format = DMY ->
              Pad(c.date, 2) \o <<".">> \o Pad(c.month, 2) \o <<".">> \o Pad(c.year, 4)
         [] format = MDY ->
              Pad(c.month, 2) \o <<"/">> \o Pad(c.date, 2) \o <<"/">> \o Pad(c.year, 4)
         [] format = YMD ->
              Pad(c.year, 4) \o <<"/">> \o Pad(c.month, 2) \o <<"/">> \o Pad(c.date, 2)
       : c \in {Civil(date.day)}})

\* the fields of a format: where the year, the month and the day of month
\* start in a text of the format, and the separator
FormatFields(format) ==
  CASE format = ISO -> [year |-> 1, month |-> 6, date |-> 9, sep |-> "-"]
    [] format = DMY -> [year |-> 7, month |-> 4, date |-> 1, sep |-> "."]
    [] format = MDY -> [year |-> 7, month |-> 1, date |-> 4, sep |-> "/"]
    [] format = YMD -> [year |-> 1, month |-> 6, date |-> 9, sep |-> "/"]

\* the text has the shape of the format: digits, and the separator twice
HasShape(text, f) ==
  /\ Len(text) = 10
  /\ \A i \in 1..10 :
       IF (i >= f.year /\ i < f.year + 4) \/ (i >= f.month /\ i < f.month + 2)
          \/ (i >= f.date /\ i < f.date + 2)
       THEN IsDigit(text[i])
       ELSE text[i] = f.sep

\* DateService.parse(text, format): midnight of the day the text names, or
\* an invalid date
DateParse(text, format) ==
  The({IF ~HasShape(text, f) THEN InvalidDate
       ELSE The({IF /\ c.year \in FirstYear..LastYear
                    /\ c.month \in 1..12
                    /\ c.date >= 1
                    /\ c.date <= MonthLength(c.year, c.month)
                 THEN DateAt(DayNumber(c.year, c.month, c.date), 0)
                 ELSE InvalidDate
                 : c \in {[year |-> DecimalValue(SubSeq(text, f.year, f.year + 3), 0),
                           month |-> DecimalValue(SubSeq(text, f.month, f.month + 1), 0),
                           date |-> DecimalValue(SubSeq(text, f.date, f.date + 1), 0)]}})
       : f \in {FormatFields(format)}})

\* DateService.parseMultiple(text, formats): the first format that gives a
\* valid date
RECURSIVE parseMultiple(_, _)
parseMultiple(text, formats) ==
  IF formats = <<>> THEN InvalidDate
  ELSE The({IF d.valid THEN d ELSE parseMultiple(text, Tail(formats))
            : d \in {DateParse(text, Head(formats))}})

\* DateService.startOfDay
startOfDay(date) == [date EXCEPT !.time = 0]

\* DateService.subtractDays / DateWrapper.subtract(n, "days")
subtractDays(date, n) == [date EXCEPT !.day = date.day - n]

\* DateWrapper.add(n, "days")
addDays(date, n) == [date EXCEPT !.day = date.day + n]

\* DateService.isBefore: strict
isBefore(a, b) == a.day < b.day \/ (a.day = b.day /\ a.time < b.time)

\* DateService.isAfter: strict
isAfter(a, b) == isBefore(b, a)

(***************************************************************************)
(* Statistics engine (StatisticsService).  A text that may be absent is a  *)
(* list of at most one text, and so is a date or a number that may be      *)
(* null.  A quotient is kept as its numerator and denominator.             *)
(***************************************************************************)
BAD_HABIT == <<"b", "a", "d", "-", "h", "a", "b", "i", "t">>

TEXT == <<"t", "e", "x", "t">>

MAX_DAYS_BACK == 12

FALLBACK_DAYS == 365

\* String.prototype.toLowerCase on the letters of the model
toLowerCase(s) ==
  [i \in 1..Len(s) |->
     CASE s[i] = "B" -> "b"
       [] s[i] = "L" -> "l"
       [] s[i] = "R" -> "r"
       [] s[i] = "V" -> "v"
       [] OTHER -> s[i]]

\* Number(s) || 0 for a text
NumberOrZero(s) ==
  The({IF n.t = "num" THEN n.n ELSE 0 : n \in {parseMaybeNumber(s)}})

\* isTrackerValueTrue: "1", "true" or a number other than zero
isTrackerValueTrue(val) ==
  IF val.t = "num" THEN val.n # 0
  ELSE val.s = <<"1">> \/ val.s = <<"t", "r", "u", "e">> \/ NumberOrZero(val.s) # 0

\* countWords: the words of the trimmed text that whitespace delimits
countWords(text) ==
  The({Cardinality({i \in 1..Len(t) : ~IsWs(t[i]) /\ (i = 1 \/ IsWs(t[i - 1]))})
       : t \in {Trim(text)}})

\* String(val)
ValueText(val) == IF val.t = "num" THEN NumberToString(val.n) ELSE val.s

\* getEntryValueByDate: the value under the date in the first of the formats
\* that names a key of the ledger; Null stands for undefined
getEntryValueByDate(entries, date, dateFormat) ==
  The({The({IF hits = {} THEN Null
            ELSE entries[DateFormat(date, formats[Min(hits)])]
            : hits \in {{i \in 1..Len(formats) :
                           DateFormat(date, formats[i]) \in DOMAIN entries}}})
       : formats \in {<<dateFormat, ISO, DMY, MDY>>}})

\* lines 57-70 of determineStartTrackingDate: the date of trackingStartDate,
\* invalid when it is not given or does not parse
OverrideDate(startTrackingDateStr, dateFormat) ==
  IF startTrackingDateStr = <<>> \/ startTrackingDateStr[1] = <<>> THEN InvalidDate
  ELSE The({IF d.valid THEN startOfDay(d) ELSE InvalidDate
            : d \in {parseMultiple(startTrackingDateStr[1], <<ISO, dateFormat, DMY, MDY>>)}})

\* lines 78-93: the first key of the sorted keys replaces the date found so
\* far when it is a date before it
WithFirstEntry(found, entries, dateFormat) ==
  IF DOMAIN entries = {} THEN found
  ELSE The({IF firstDate.valid
               /\ (~found.valid \/ isBefore(startOfDay(firstDate), found))
            THEN startOfDay(firstDate)
            ELSE found
            : firstDate \in {parseMultiple(SortKeys(DOMAIN entries)[1],
                                           <<dateFormat, ISO, DMY, MDY>>)}})

determineStartTrackingDate(startTrackingDateStr, ctime, entries, dateFormat, currentDate) ==
  The({The({IF found.valid THEN found
            ELSE startOfDay(subtractDays(currentDate, FALLBACK_DAYS))
            : found \in {WithFirstEntry(
                IF ~override.valid /\ ctime # <<>> THEN startOfDay(ctime[1]) ELSE override,
                entries, dateFormat)}})
       : override \in {OverrideDate(startTrackingDateStr, dateFormat)}})

\* a success test that takes every tracker for an ordinary habit
IsSuccessOfEntry(val, isBadHabit) == val # Null /\ isTrackerValueTrue(val)

\* lines 343-360: the success of a day of value val
IsSuccess(val, isBadHabit) ==
  IF isBadHabit THEN (val = Null \/ ~isTrackerValueTrue(val))
  ELSE (val # Null /\ isTrackerValueTrue(val))

\* a current streak walk that only the start tracking date stops
RECURSIVE CurrentWalkToStart(_, _, _, _, _)
CurrentWalkToStart(entries, dateFormat, isBadHabit, start, state) ==
  The({IF isBefore(st.date, start)
       THEN [streak |-> st.streak, examined |-> st.checked]
       ELSE IF IsSuccess(getEntryValueByDate(entries, st.date, dateFormat), isBadHabit)
       THEN CurrentWalkToStart(entries, dateFormat, isBadHabit, start,
                               [date |-> subtractDays(st.date, 1),
                                checked |-> st.checked + 1, streak |-> st.streak + 1])
       ELSE [streak |-> st.streak, examined |-> st.checked + 1]
       : st \in {state}})

\* the loop of lines 335-370 from a state [date, checked, streak]; examined
\* counts the days the loop looked up
RECURSIVE CurrentWalk(_, _, _, _, _)
CurrentWalk(entries, dateFormat, isBadHabit, start, state) ==
  The({IF st.checked >= MAX_DAYS_BACK \/ isBefore(st.date, start)
       THEN [streak |-> st.streak, examined |-> st.checked]
       ELSE IF IsSuccess(getEntryValueByDate(entries, st.date, dateFormat), isBadHabit)
       THEN CurrentWalk(entries, dateFormat, isBadHabit, start,
                        [date |-> subtractDays(st.date, 1), checked |-> st.checked + 1,
                         streak |-> st.streak + 1])
       ELSE [streak |-> st.streak, examined |-> st.checked + 1]
       : st \in {state}})

\* a best streak walk that sees the trailing run only
BestWalkTrailing(entries, dateFormat, isBadHabit, start, state) ==
  CurrentWalk(entries, dateFormat, isBadHabit, start,
              [date |-> state.date, checked |-> state.checked, streak |-> state.run])

\* the loop of lines 381-407 from a state [date, checked, run, best]
RECURSIVE BestWalk(_, _, _, _, _)
BestWalk(entries, dateFormat, isBadHabit, start, state) ==
  The({IF isBefore(st.date, start) \/ st.checked >= MAX_DAYS_BACK
       THEN [streak |-> st.best, examined |-> st.checked]
       ELSE The({BestWalk(entries, dateFormat, isBadHabit, start,
                          [date |-> subtractDays(st.date, 1), checked |-> st.checked + 1,
                           run |-> run, best |-> Max({st.best, run})])
                 : run \in {IF IsSuccess(getEntryValueByDate(entries, st.date, dateFormat),
                                         isBadHabit)
                            THEN st.run + 1 ELSE 0}})
       : st \in {state}})

NoStreaks ==
  [current |-> 0, best |-> 0, examinedCurrent |-> 0, examinedBest |-> 0,
   start |-> InvalidDate]

\* calculateStreaks; the result also tells the days each loop looked up and
\* the start tracking date
calculateStreaks(entries, dateFormat, endDate, trackerType, ctime, startTrackingDateStr) ==
  IF ~endDate.valid THEN NoStreaks
  ELSE The({The({IF ~start.valid THEN NoStreaks
                 ELSE The({The({[current |-> cur.streak, best |-> best.streak,
                                 examinedCurrent |-> cur.examined,
                                 examinedBest |-> best.examined, start |-> start]
                                : best \in {BestWalk(entries, dateFormat, isBadHabit, start,
                                     [date |-> currentDate, checked |-> 0, run |-> 0,
                                      best |-> 0])}})
                           : cur \in {CurrentWalk(entries, dateFormat, isBadHabit, start,
                                [date |-> currentDate, checked |-> 0, streak |-> 0])}})
                 : start \in {determineStartTrackingDate(startTrackingDateStr, ctime,
                                entries, dateFormat, currentDate)},
                   isBadHabit \in {toLowerCase(trackerType) = BAD_HABIT}})
            : currentDate \in {startOfDay(endDate)}})

\* the loop of TrackerFileService.calculateStreak from a state [date,
\* checked, streak]: the value is looked up under the configured format only
RECURSIVE StreakWalk(_, _, _, _, _)
StreakWalk(entries, dateFormat, isBadHabit, start, state) ==
  The({IF st.checked >= MAX_DAYS_BACK \/ (start.valid /\ isBefore(st.date, start))
       THEN st.streak
       ELSE IF IsSuccess(The({IF key \in DOMAIN entries THEN entries[key] ELSE Null
                              : key \in {DateFormat(st.date, dateFormat)}}),
                         isBadHabit)
       THEN StreakWalk(entries, dateFormat, isBadHabit, start,
                       [date |-> subtractDays(st.date, 1), checked |-> st.checked + 1,
                        streak |-> st.streak + 1])
       ELSE st.streak
       : st \in {state}})

\* TrackerFileService.calculateStreak: the start tracking date is the
\* creation date or the first of the sorted keys when it is before it
calculateStreak(entries, dateFormat, endDate, trackerType, ctime) ==
  The({The({StreakWalk(entries, dateFormat, toLowerCase(trackerType) = BAD_HABIT,
                       IF withFirst = <<>> THEN subtractDays(endDate, FALLBACK_DAYS)
                       ELSE withFirst[1],
                       [date |-> endDate, checked |-> 0, streak |-> 0])
            : withFirst \in
                {IF DOMAIN entries = {} THEN fromCtime
                 ELSE The({IF fromCtime = <<>>
                              \/ (firstDate.valid /\ isBefore(firstDate, fromCtime[1]))
                           THEN <<firstDate>> ELSE fromCtime
                           : firstDate \in {DateParse(SortKeys(DOMAIN entries)[1],
                                                      dateFormat)}})}})
       : fromCtime \in {IF ctime # <<>> THEN <<startOfDay(ctime[1])>> ELSE <<>>}})

\* a quotient n / d of two integers
Frac(n, d) == [num |-> n, den |-> d]

\* lines 143-151 and 227-237: the number of a value of the ledger; the words
\* of the text are counted first when countText
NumVal(val, countText) ==
  IF val = Null THEN 0
  ELSE IF countText THEN countWords(ValueText(val))
  ELSE IF val.t = "num" THEN val.n
  ELSE IF val.s = <<"1">> \/ val.s = <<"t", "r", "u", "e">> THEN 1
  ELSE NumberOrZero(val.s)

\* lines 155-161: success is 1, failure is 0
HabitVal(val, isBadHabit) ==
  The({IF isBadHabit
       THEN (IF numVal = 0 \/ val = Null THEN 1 ELSE 0)
       ELSE (IF val # Null /\ numVal > 0 THEN 1 ELSE 0)
       : numVal \in {NumVal(val, FALSE)}})

\* lines 114-129 and 199-214: the first and the last day of the loop
Period(dateFormat, dateIso, daysToShow, startTrackingDateStr) ==
  The({The({The({[first |-> IF trackingStartDate.valid /\ isAfter(trackingStartDate, startDate)
                            THEN trackingStartDate ELSE startDate,
                  last |-> endDate]
                 : trackingStartDate \in
                     {IF startTrackingDateStr = <<>> \/ startTrackingDateStr[1] = <<>>
                      THEN InvalidDate
                      ELSE parseMultiple(startTrackingDateStr[1],
                                         <<dateFormat, ISO, YMD, DMY>>)}})
            : startDate \in {subtractDays(endDate, daysToShow - 1)}})
       : endDate \in {DateParse(dateIso, dateFormat)}})

\* the days the while loop of lines 137-166 and 221-242 goes through
PeriodLength(period) ==
  IF isAfter(period.first, period.last) THEN 0
  ELSE period.last.day - period.first.day + 1

\* entries.get(DateService.format(currentDate, settings.dateFormat))
EntryOfDay(entries, dateFormat, date) ==
  The({IF key \in DOMAIN entries THEN entries[key] ELSE Null
       : key \in {DateFormat(date, dateFormat)}})

RECURSIVE SumSeq(_)
SumSeq(numbers) ==
  The({IF ns = <<>> THEN 0 ELSE Head(ns) + SumSeq(Tail(ns)) : ns \in {numbers}})

\* [...periodDays].sort((a, b) => a - b)
RECURSIVE SortNumbers(_)
SortNumbers(numbers) ==
  The({IF ns = <<>> THEN <<>>
       ELSE The({<<ns[i]>> \o SortNumbers(SubSeq(ns, 1, i - 1) \o SubSeq(ns, i + 1, Len(ns)))
                 : i \in {CHOOSE k \in 1..Len(ns) : \A j \in 1..Len(ns) : ns[k] <= ns[j]}})
       : ns \in {numbers}})

\* periodDays.filter(v => v > 0).length
CountPositive(periodDays) == Cardinality({i \in 1..Len(periodDays) : periodDays[i] > 0})

\* lines 260-265: the median of a sorted list that is not empty
Median(sortedValues) ==
  The({IF Len(sortedValues) % 2 = 0
       THEN Frac(sortedValues[mid] + sortedValues[mid + 1], 2)
       ELSE Frac(sortedValues[mid + 1], 1)
       : mid \in {Len(sortedValues) \div 2}})

calculateHabitStatistics(entries, dateFormat, dateIso, daysToShow, trackerType, startTrackingDateStr) ==
  The({The({The({[totalRecords |-> Cardinality(DOMAIN entries),
                  periodDays |-> periodDays,
                  actualDaysCount |-> Len(periodDays),
                  completionRate |-> IF Len(periodDays) > 0
                                     THEN Frac(CountPositive(periodDays) * 100, Len(periodDays))
                                     ELSE Frac(0, 1),
                  activeDays |-> CountPositive(periodDays),
                  sum |-> sum,
                  avg |-> IF Len(periodDays) > 0 THEN Frac(sum, Len(periodDays))
                          ELSE Frac(0, 1)]
                 : sum \in {SumSeq(periodDays)}})
            : periodDays \in
                {[i \in 1..PeriodLength(period) |->
                    HabitVal(EntryOfDay(entries, dateFormat, addDays(period.first, i - 1)),
                             toLowerCase(trackerType) = BAD_HABIT)]}})
       : period \in {Period(dateFormat, dateIso, daysToShow, startTrackingDateStr)}})

calculateMetricStatistics(entries, dateFormat, dateIso, daysToShow, trackerType, startTrackingDateStr) ==
  The({The({The({[totalRecords |-> Cardinality(DOMAIN entries),
                  periodDays |-> periodDays,
                  actualDaysCount |-> Len(periodDays),
                  sum |-> SumSeq(periodDays),
                  avg |-> IF Len(periodDays) > 0
                          THEN Frac(SumSeq(periodDays), Len(periodDays))
                          ELSE Frac(0, 1),
                  min |-> IF sortedValues = <<>> THEN <<>> ELSE <<sortedValues[1]>>,
                  max |-> IF sortedValues = <<>> THEN <<>>
                          ELSE <<sortedValues[Len(sortedValues)]>>,
                  median |-> IF sortedValues = <<>> THEN <<>> ELSE <<Median(sortedValues)>>,
                  activeDays |-> CountPositive(periodDays)]
                 : sortedValues \in {SortNumbers(periodDays)}})
            : periodDays \in
                {[i \in 1..PeriodLength(period) |->
                    NumVal(EntryOfDay(entries, dateFormat, addDays(period.first, i - 1)),
                           toLowerCase(trackerType) = TEXT)]}})
       : period \in {Period(dateFormat, dateIso, daysToShow, startTrackingDateStr)}})

\* calculateStatistics: habit or metric is a list of at most one record
calculateStatistics(entries, dateFormat, dateIso, daysToShow, trackerType, endDate, ctime, startTrackingDateStr) ==
  The({[habit |-> IF isHabit
                  THEN <<calculateHabitStatistics(entries, dateFormat, dateIso, daysToShow,
                                                  trackerType, startTrackingDateStr)>>
                  ELSE <<>>,
        metric |-> IF isHabit THEN <<>>
                   ELSE <<calculateMetricStatistics(entries, dateFormat, dateIso, daysToShow,
                                                    trackerType, startTrackingDateStr)>>,
        streaks |-> calculateStreaks(entries, dateFormat, endDate, trackerType, ctime,
                                     startTrackingDateStr),
        trackerType |-> trackerType]
       : isHabit \in {toLowerCase(trackerType) \in {GOOD_HABIT, BAD_HABIT}}})

\* VisualizationService.calculateStats
calculateStats(entries, dateFormat, dateIso, daysToShow, trackerType) ==
  The({The({[total |-> Cardinality(DOMAIN entries),
             sum |-> SumSeq(periodDays),
             avg |-> Frac(SumSeq(periodDays), daysToShow),
             periodDays |-> periodDays]
            : periodDays \in
                {[i \in 1..daysToShow |->
                    The({IF toLowerCase(trackerType) = BAD_HABIT
                         THEN (IF numVal = 1 THEN 0 ELSE 1)
                         ELSE numVal
                         : numVal \in {NumVal(EntryOfDay(entries, dateFormat,
                                                         addDays(startDate, i - 1)),
                                              toLowerCase(trackerType) = TEXT)}})]}})
       : startDate \in {subtractDays(DateParse(dateIso, dateFormat), daysToShow - 1)}})

NoStatistics ==
  [habit |-> <<>>, metric |-> <<>>, streaks |-> NoStreaks, trackerType |-> <<>>]

NoStats == [total |-> 0, sum |-> 0, avg |-> Frac(0, 1), periodDays |-> <<>>]

\* a call of the statistics service: the arguments, with the value each day
\* of the ledger holds and the format its keys are written in, and the
\* results of calculateStreaks, calculateStatistics and calculateStats
IdleStats ==
  [pc |-> "idle", days |-> <<>>, keyFormat |-> ISO, entries |-> EmptyLedger,
   dateFormat |-> ISO, typeWritten |-> <<>>, trackerType |-> GOOD_HABIT,
   endDate |-> InvalidDate, dateIso |-> <<>>, daysToShow |-> 0, ctime |-> <<>>,
   startTrackingDateStr |-> <<>>,
   streaks |-> NoStreaks, streak |-> 0, statistics |-> NoStatistics,
   visual |-> NoStats]

(***************************************************************************)
(* State.                                                                  *)
(***************************************************************************)
VARIABLES
  vault,         \* path -> text of the document (the storage collaborator)
  stat,          \* path -> file.stat: [mtime, size]
  now,           \* Date.now()
  cacheKeys,     \* TrackerDataCache.cache: the keys in Map insertion order
  cacheEnt,      \* TrackerDataCache.cache: key -> CacheEntry
  gets,          \* the getEntries / getFrontmatter calls
  getCalls,      \* number of getEntries / getFrontmatter calls started
  modifyGuards,  \* TrackerFileService.modifyGuards is set
  writers,       \* the writeLogLine calls
  modCount,      \* number of modifications of a document that took effect
  ioFailures,    \* number of storage calls that threw
  writeCalls,    \* number of writeLogLine calls started
  trackerState,  \* StateManager.trackerState
  accessOrder,   \* StateManager.accessOrder
  useOrder,      \* the cached paths, the least recently ensured first
  ensures,       \* the ensureTrackerState calls
  loadCount,     \* number of loads the StateManager asked of the file service
  lastMove,      \* the last moveTrackerState call, and the number of calls
  codec,         \* the ledger the codec is applied to, and the result
  stats          \* a call of the statistics service: its arguments and results

vaultVars == <<vault, stat, now>>

cacheVars == <<cacheKeys, cacheEnt, gets, getCalls>>

writeVars == <<modifyGuards, writers, modCount, ioFailures, writeCalls>>

smVars == <<trackerState, accessOrder, useOrder, ensures, loadCount, lastMove>>

vars == <<vault, stat, now, cacheKeys, cacheEnt, gets, getCalls, modifyGuards, writers,
          modCount, ioFailures, writeCalls,
          trackerState, accessOrder, useOrder, ensures, loadCount, lastMove, codec, stats>>

(***************************************************************************)
(* Bounds of the model and the constants of the program.                   *)
(***************************************************************************)
\* constants.ts is not part of the source tree at hand: the two constants
\* the caches import are given small values here
MAX_CACHE_SIZE == 2

CACHE_TTL_MS == 1

MaxTime == 2

MaxFileTime == 1

MaxIoFailures == 1

MaxGets == 3

MaxEdits == 1

MaxWrites == 2

MaxLoads == 4

MaxMoves == 2

MaxValueLen == 2

Paths == {"a.md", "b.md", "c.md"}

GetIds == {1, 2}

EnsureIds == {1, 2}

(***************************************************************************)
(* Documents.                                                              *)
(***************************************************************************)
TypeLine == <<"t", "y", "p", "e", ":", SP, DQ, "n", "u", "m", "b", "e", "r", DQ>>

UnitLine == <<"u", "n", "i", "t", ":", SP, DQ, "k", "g", DQ>>

EmptyDataLine == DataWord \o <<SP>> \o EmptyObject

Date1 == <<"2", "0", "2", "4", "-", "0", "1", "-", "0", "1">>

Date2 == <<"2", "0", "2", "4", "-", "0", "1", "-", "0", "2">>

Dates == {Date1, Date2}

Body == <<NL, "B", NL>>

Document(lines) ==
  Fence \o <<NL>> \o lines \o <<NL>> \o Fence \o Body

\* the data section in the middle of the header, empty form
DocMiddleEmpty == Document(TypeLine \o <<NL>> \o EmptyDataLine \o <<NL>> \o UnitLine)

\* the data section first, multi-line form
DocFirstLines ==
  Document(DataWord \o <<NL>> \o FormatEntry(Date1, Num(1)) \o UnitLine)

\* the data section last, multi-line form
DocLastLines ==
  Document(TypeLine \o <<NL>> \o DataWord \o <<NL, SP, SP, DQ>> \o Date1 \o <<DQ, ":", SP, "1">>)

\* a header without a data section
DocNoData == Document(TypeLine)

\* no metadata header at all
DocNoHeader == <<"B", NL>>

(***************************************************************************)
(* TrackerDataCache.                                                       *)
(***************************************************************************)
NoEntry ==
  [present |-> FALSE, mtime |-> 0, size |-> 0, timestamp |-> 0, lastAccessed |-> 0,
   hasFm |-> FALSE, fm |-> NoOpts, hasEntries |-> FALSE, entries |-> EmptyLedger]

IdleGet ==
  [pc |-> "idle", kind |-> "entries", path |-> "a.md", old |-> NoEntry,
   mtime |-> 0, size |-> 0, timestamp |-> 0, readOk |-> TRUE, raw |-> <<>>,
   loaded |-> FALSE, ledger |-> EmptyLedger, opts |-> NoOpts, seenMod |-> 0]

Remove(seq, x) == SelectSeq(seq, LAMBDA y : y # x)

InSeq(seq, x) == \E i \in 1..Len(seq) : seq[i] = x

\* Array.prototype.indexOf + 1
IndexOf(seq, x) ==
  IF InSeq(seq, x) THEN Min({i \in 1..Len(seq) : seq[i] = x}) ELSE 0

\* isStale were it to compare the age with >= and not to look at the size
isStaleAtTtl(p, entry) ==
  \/ ~entry.present
  \/ now - entry.timestamp >= CACHE_TTL_MS
  \/ entry.mtime # stat[p].mtime

\* isStale(file, entry) for the live file of path p
isStale(p, entry) ==
  \/ ~entry.present
  \/ now - entry.timestamp > CACHE_TTL_MS
  \/ entry.mtime # stat[p].mtime
  \/ entry.size # stat[p].size

\* the key evictLRU deletes: the first key in Map order whose lastAccessed is
\* the smallest; "" when the size does not exceed MAX_CACHE_SIZE
evictLRU(keys, ent) ==
  IF Len(keys) <= MAX_CACHE_SIZE THEN ""
  ELSE LET oldest == Min({ent[keys[i]].lastAccessed : i \in 1..Len(keys)})
       IN keys[Min({i \in 1..Len(keys) : ent[keys[i]].lastAccessed = oldest})]

\* the part of the entry a call asks for
HoldsPart(entry, kind) ==
  entry.present /\ (IF kind = "entries" THEN entry.hasEntries ELSE entry.hasFm)

\* getEntries / getFrontmatter up to the await of the loader's vault.read, or
\* to the return when the cached part is served
GetStart(c, kind, p) ==
  LET entry == cacheEnt[p]
      victim == evictLRU(cacheKeys, cacheEnt)
  IN /\ gets[c].pc \in {"idle", "done"}
     /\ getCalls < MaxGets
     /\ getCalls' = getCalls + 1
     /\ IF isStale(p, entry) \/ ~HoldsPart(entry, kind)
        THEN /\ cacheKeys' = Remove(cacheKeys, victim)
             /\ cacheEnt' = [q \in Paths |-> IF q = victim THEN NoEntry ELSE cacheEnt[q]]
             /\ gets' = [gets EXCEPT ![c] =
                  [IdleGet EXCEPT !.pc = "loading", !.kind = kind, !.path = p,
                     !.old = entry, !.mtime = stat[p].mtime, !.size = stat[p].size,
                     !.timestamp = now, !.loaded = TRUE, !.seenMod = modCount]]
        ELSE /\ cacheKeys' = cacheKeys
             /\ cacheEnt' = [cacheEnt EXCEPT ![p].lastAccessed = now]
             /\ gets' = [gets EXCEPT ![c] =
                  [IdleGet EXCEPT !.pc = "done", !.kind = kind, !.path = p,
                     !.old = entry, !.mtime = stat[p].mtime, !.size = stat[p].size,
                     !.timestamp = now, !.ledger = entry.entries, !.opts = entry.fm,
                     !.seenMod = modCount]]
     /\ UNCHANGED <<vaultVars, writeVars, smVars, codec, stats>>

\* the loader's vault.read returns the text of the document
GetRead(c) ==
  /\ gets[c].pc = "loading"
  /\ gets' = [gets EXCEPT ![c].pc = "read", ![c].raw = vault[gets[c].path]]
  /\ UNCHANGED <<vaultVars, cacheKeys, cacheEnt, getCalls, writeVars, smVars, codec, stats>>

\* the loader's vault.read throws: the loader catches it
GetReadFail(c) ==
  /\ gets[c].pc = "loading"
  /\ ioFailures < MaxIoFailures
  /\ ioFailures' = ioFailures + 1
  /\ gets' = [gets EXCEPT ![c].pc = "read", ![c].readOk = FALSE]
  /\ UNCHANGED <<vaultVars, cacheKeys, cacheEnt, getCalls, modifyGuards, writers, modCount,
                 writeCalls, smVars, codec, stats>>

\* the loader returns, the other part is taken over from the entry seen at
\* the start unless that entry is stale by now, and the fresh entry is stored
GetFinish(c) ==
  LET g == gets[c]
      keep == ~isStale(g.path, g.old)
      ledger == IF g.kind = "entries" THEN LoadLedger(g.readOk, g.raw) ELSE g.old.entries
      opts == IF g.kind = "entries" THEN g.old.fm ELSE LoadFileOpts(g.readOk, g.raw)
      freshEntry ==
        [present |-> TRUE, mtime |-> g.mtime, size |-> g.size,
         timestamp |-> g.timestamp, lastAccessed |-> g.timestamp,
         hasFm |-> IF g.kind = "entries" THEN keep /\ g.old.hasFm ELSE TRUE,
         fm |-> IF g.kind = "entries" /\ ~(keep /\ g.old.hasFm) THEN NoOpts ELSE opts,
         hasEntries |-> IF g.kind = "entries" THEN TRUE ELSE keep /\ g.old.hasEntries,
         entries |-> IF g.kind # "entries" /\ ~(keep /\ g.old.hasEntries)
                     THEN EmptyLedger ELSE ledger]
  IN /\ g.pc = "read"
     /\ cacheKeys' = IF InSeq(cacheKeys, g.path) THEN cacheKeys
                     ELSE Append(cacheKeys, g.path)
     /\ cacheEnt' = [cacheEnt EXCEPT ![g.path] = freshEntry]
     /\ gets' = [gets EXCEPT ![c].pc = "done", ![c].raw = <<>>,
                   ![c].ledger = freshEntry.entries, ![c].opts = freshEntry.fm]
     /\ UNCHANGED <<vaultVars, getCalls, writeVars, smVars, codec, stats>>

\* cache.delete(path)
CacheDelete(p) ==
  /\ cacheKeys' = Remove(cacheKeys, p)
  /\ cacheEnt' = [cacheEnt EXCEPT ![p] = NoEntry]

\* invalidateCacheForPath
Invalidate(p) ==
  /\ InSeq(cacheKeys, p)
  /\ CacheDelete(p)
  /\ UNCHANGED <<vaultVars, gets, getCalls, writeVars, smVars, codec, stats>>

\* invalidateAllCache
InvalidateAll ==
  /\ cacheKeys # <<>>
  /\ cacheKeys' = <<>>
  /\ cacheEnt' = [q \in Paths |-> NoEntry]
  /\ UNCHANGED <<vaultVars, gets, getCalls, writeVars, smVars, codec, stats>>

(***************************************************************************)
(* The environment: the clock, and edits of a document made outside the    *)
(* plugin.                                                                 *)
(***************************************************************************)
Tick ==
  /\ now < MaxTime
  /\ now' = now + 1
  /\ UNCHANGED <<vault, stat, cacheVars, writeVars, smVars, codec, stats>>

\* appends a character to the body, or removes the one appended
Resized(text) ==
  IF EndsWith(text, <<"x">>) THEN SubSeq(text, 1, Len(text) - 1) ELSE text \o <<"x">>

\* the storage collaborator records the new text, its size and the time
Store(p, text) ==
  /\ vault' = [vault EXCEPT ![p] = text]
  /\ stat' = [stat EXCEPT ![p] = [mtime |-> now, size |-> Len(text)]]

ExternalEdit(p) ==
  /\ modCount < MaxEdits
  /\ modCount' = modCount + 1
  /\ Store(p, Resized(vault[p]))
  /\ UNCHANGED <<now, cacheVars, modifyGuards, writers, ioFailures, writeCalls, smVars, codec, stats>>

\* the file is saved again with the same text
ExternalTouch(p) ==
  /\ modCount < MaxEdits
  /\ modCount' = modCount + 1
  /\ stat[p].mtime # now
  /\ Store(p, vault[p])
  /\ UNCHANGED <<now, cacheVars, modifyGuards, writers, ioFailures, writeCalls, smVars, codec, stats>>

(***************************************************************************)
(* TrackerFileService.writeLogLine on the document WPath.                  *)
(***************************************************************************)
WPath == "a.md"

Writers == {1, 2}

NO_FRONTMATTER == "NO_FRONTMATTER"

STORAGE_ERROR == "storage error"

\* a call: its arguments, the text it read and the text it wrote, the error it
\* threw, the calls it made in order (trace), and when it started, read and
\* wrote, counted in modifications of the document
IdleWriter ==
  [pc |-> "idle", date |-> <<>>, value |-> <<>>, raw |-> <<>>, written |-> <<>>,
   error |-> "", trace |-> <<>>, guarded |-> FALSE, alone |-> FALSE,
   didRead |-> FALSE, hadEntry |-> FALSE, startVer |-> 0, rdVer |-> 0, modVer |-> 0]

InFlight(w) == writers[w].pc \in {"reading", "modifying"}

\* a guard is called only when setModifyGuards has set it (the ?. of lines 124, 165)
CallGuard(trace, hook) == IF modifyGuards THEN Append(trace, hook) ELSE trace

\* onAfterModify were it called at the end of the try block, not in a finally
AfterSuccessOnly(trace) ==
  IF trace # <<>> /\ trace[Len(trace)] = "invalidate"
  THEN CallGuard(trace, "onAfterModify")
  ELSE trace

\* the finally block, line 165
Finally(trace) == CallGuard(trace, "onAfterModify")

\* writeLogLine were it to prepend a header to a document that has none
WriteTextAddingHeader(content, dateIso, value) ==
  [ok |-> TRUE, error |-> "",
   newContent |-> IF FrontmatterMatch(content).ok
                  THEN NewContent(content, dateIso, value)
                  ELSE NewContent(Fence \o <<NL>> \o EmptyDataLine \o <<NL>> \o Fence \o <<NL>> \o content,
                                  dateIso, value)]

\* lines 127-157 on the text read: the error thrown, or the text to write
WriteText(content, dateIso, value) ==
  IF FrontmatterMatch(content).ok
  THEN [ok |-> TRUE, error |-> "", newContent |-> NewContent(content, dateIso, value)]
  ELSE [ok |-> FALSE, error |-> NO_FRONTMATTER, newContent |-> <<>>]

\* line 124, and the call of vault.read
WriteStart(w, dateIso, value) ==
  /\ ~InFlight(w)
  /\ writeCalls < MaxWrites
  /\ writeCalls' = writeCalls + 1
  /\ writers' = [x \in Writers |->
       IF x = w
       THEN [IdleWriter EXCEPT !.pc = "reading", !.date = dateIso, !.value = value,
               !.trace = CallGuard(<<>>, "onBeforeModify"), !.guarded = modifyGuards,
               !.alone = \A y \in Writers : ~InFlight(y), !.startVer = modCount]
       ELSE [writers[x] EXCEPT !.alone = FALSE]]
  /\ UNCHANGED <<vaultVars, cacheVars, modifyGuards, modCount, ioFailures, smVars, codec, stats>>

\* vault.read returns; lines 127-157 run and vault.modify is called, or the
\* missing header is thrown, caught, thrown again and the finally block runs
WriteRead(w) ==
  LET wr == writers[w]
      out == WriteText(vault[WPath], wr.date, wr.value)
      trace == Append(wr.trace, "read")
  IN /\ wr.pc = "reading"
     /\ writers' = [writers EXCEPT ![w] =
          IF out.ok
          THEN [wr EXCEPT !.pc = "modifying", !.raw = vault[WPath], !.didRead = TRUE,
                  !.written = out.newContent, !.trace = trace, !.rdVer = modCount]
          ELSE [wr EXCEPT !.pc = "failed", !.raw = vault[WPath], !.didRead = TRUE,
                  !.error = out.error, !.trace = Finally(trace), !.rdVer = modCount]]
     /\ UNCHANGED <<vaultVars, cacheVars, modifyGuards, modCount, ioFailures, writeCalls,
                    smVars, codec, stats>>

\* vault.read throws
WriteReadFail(w) ==
  /\ writers[w].pc = "reading"
  /\ ioFailures < MaxIoFailures
  /\ ioFailures' = ioFailures + 1
  /\ writers' = [writers EXCEPT ![w].pc = "failed", ![w].error = STORAGE_ERROR,
                   ![w].trace = Finally(Append(writers[w].trace, "readThrow"))]
  /\ UNCHANGED <<vaultVars, cacheVars, modifyGuards, modCount, writeCalls, smVars, codec, stats>>

\* vault.modify takes effect and returns; lines 159 and 165
WriteModify(w) ==
  LET wr == writers[w]
  IN /\ wr.pc = "modifying"
     /\ Store(WPath, wr.written)
     /\ CacheDelete(WPath)
     /\ modCount' = modCount + 1
     /\ writers' = [writers EXCEPT ![w].pc = "done", ![w].modVer = modCount + 1,
          ![w].hadEntry = cacheEnt[WPath].present,
          ![w].trace = Finally(Append(Append(wr.trace, "modify"), "invalidate"))]
     /\ UNCHANGED <<now, gets, getCalls, modifyGuards, ioFailures, writeCalls, smVars, codec, stats>>

\* vault.modify throws
WriteModifyFail(w) ==
  /\ writers[w].pc = "modifying"
  /\ ioFailures < MaxIoFailures
  /\ ioFailures' = ioFailures + 1
  /\ writers' = [writers EXCEPT ![w].pc = "failed", ![w].error = STORAGE_ERROR,
                   ![w].trace = Finally(Append(writers[w].trace, "modifyThrow"))]
  /\ UNCHANGED <<vaultVars, cacheVars, modifyGuards, modCount, writeCalls, smVars, codec, stats>>

setModifyGuards ==
  /\ ~modifyGuards
  /\ modifyGuards' = TRUE
  /\ UNCHANGED <<vaultVars, cacheVars, writers, modCount, ioFailures, writeCalls,
                 smVars, codec, stats>>

\* the values written in the model: a number and one text for each character
\* the codec or String.prototype.replace treats specially
WriteValues ==
  {<<"7">>, <<BS>>, <<DQ>>, <<NL>>, <<"$", "$">>}

InitialDocs == {DocMiddleEmpty, DocFirstLines, DocLastLines, DocNoData, DocNoHeader}

StatOf(text) == [mtime |-> 0, size |-> Len(text)]

(***************************************************************************)
(* StateManager: trackerState and accessOrder.  The file service is a      *)
(* collaborator: each load gives a new state, told apart by its number.    *)
(***************************************************************************)
NoState == [present |-> FALSE, id |-> 0]

\* trackerState.size
Size(state) == Cardinality({p \in Paths : state[p].present})

\* an ensureTrackerState call: the path, whether the state was found, the
\* number of the state returned, what evictIfNeeded met and removed, the
\* accessOrder the call left, the move that came just before the call, and
\* whether clearTrackerState ran for the path while the call awaited its loads
NoMove ==
  [n |-> 0, old |-> "", new |-> "", same |-> FALSE, hadOld |-> FALSE,
   stateOld |-> 0, posOld |-> 0, fresh |-> FALSE]

IdleEnsure ==
  [pc |-> "idle", path |-> "", hit |-> FALSE, state |-> 0, full |-> FALSE,
   removed |-> {}, lruBefore |-> <<>>, orderAfter |-> <<>>, after |-> NoMove,
   cleared |-> FALSE]

RemoveAt(seq, i) == SubSeq(seq, 1, i - 1) \o SubSeq(seq, i + 1, Len(seq))

\* indexOf and splice(index, 1): the first occurrence is removed
RemoveFirst(seq, x) ==
  IF IndexOf(seq, x) = 0 THEN seq ELSE RemoveAt(seq, IndexOf(seq, x))

updateAccessOrder(order, filePath) == Append(RemoveFirst(order, filePath), filePath)

\* evictIfNeeded: the map and the order it leaves, and the keys it removed
\* from the map
evictIfNeeded(state, order) ==
  IF Size(state) >= MAX_CACHE_SIZE /\ order # <<>>
  THEN [state |-> [state EXCEPT ![Head(order)] = NoState],
        order |-> Tail(order),
        removed |-> IF state[Head(order)].present THEN {Head(order)} ELSE {}]
  ELSE [state |-> state, order |-> order, removed |-> {}]

\* the move that came just before is no longer the last operation
Followed(move) == [move EXCEPT !.fresh = FALSE]

\* ensureTrackerState up to the return of the state found, or to the await
\* of the two loads (lines 52-65)
EnsureStart(c, p) ==
  LET existing == trackerState[p]
      ev == evictIfNeeded(trackerState, accessOrder)
      call == [IdleEnsure EXCEPT !.path = p, !.after = lastMove]
  IN /\ ensures[c].pc \in {"idle", "done"}
     /\ lastMove' = Followed(lastMove)
     /\ IF existing.present
        THEN /\ accessOrder' = updateAccessOrder(accessOrder, p)
             /\ useOrder' = Append(Remove(useOrder, p), p)
             /\ ensures' = [ensures EXCEPT ![c] =
                  [call EXCEPT !.pc = "done", !.hit = TRUE, !.state = existing.id,
                               !.orderAfter = accessOrder']]
             /\ UNCHANGED <<trackerState, loadCount>>
        ELSE /\ loadCount < MaxLoads
             /\ loadCount' = loadCount + 1
             /\ trackerState' = ev.state
             /\ accessOrder' = ev.order
             /\ useOrder' = SelectSeq(useOrder, LAMBDA q : q \notin ev.removed)
             /\ ensures' = [ensures EXCEPT ![c] =
                  [call EXCEPT !.pc = "loading", !.state = loadCount + 1,
                               !.full = (Size(trackerState) = MAX_CACHE_SIZE),
                               !.removed = ev.removed, !.lruBefore = useOrder]]
     /\ UNCHANGED <<vaultVars, cacheVars, writeVars, codec, stats>>

\* the loads return: lines 66-69
EnsureFinish(c) ==
  LET call == ensures[c]
  IN /\ call.pc = "loading"
     /\ trackerState' = [trackerState EXCEPT ![call.path] = [present |-> TRUE, id |-> call.state]]
     /\ accessOrder' = updateAccessOrder(accessOrder, call.path)
     /\ useOrder' = Append(Remove(useOrder, call.path), call.path)
     /\ ensures' = [ensures EXCEPT ![c].pc = "done", ![c].orderAfter = accessOrder']
     /\ lastMove' = Followed(lastMove)
     /\ UNCHANGED <<loadCount, vaultVars, cacheVars, writeVars, codec, stats>>

clearTrackerState(path) ==
  /\ trackerState' = [trackerState EXCEPT ![path] = NoState]
  /\ accessOrder' = RemoveFirst(accessOrder, path)
  /\ useOrder' = Remove(useOrder, path)
  /\ lastMove' = Followed(lastMove)
  /\ ensures' = [c \in EnsureIds |->
       IF ensures[c].pc = "loading" /\ ensures[c].path = path
       THEN [ensures[c] EXCEPT !.cleared = TRUE]
       ELSE ensures[c]]
  /\ UNCHANGED <<loadCount, vaultVars, cacheVars, writeVars, codec, stats>>

clearAllCaches ==
  /\ trackerState' = [p \in Paths |-> NoState]
  /\ accessOrder' = <<>>
  /\ useOrder' = <<>>
  /\ lastMove' = Followed(lastMove)
  /\ UNCHANGED <<ensures, loadCount, vaultVars, cacheVars, writeVars, codec, stats>>

\* the cached paths in order of their last ensureTrackerState call once the
\* state under oldPath, if there is one, has taken the place of newPath's
Renamed(order, oldPath, newPath) ==
  IF InSeq(order, oldPath)
  THEN [i \in 1..Len(Remove(order, newPath)) |->
          IF Remove(order, newPath)[i] = oldPath THEN newPath
          ELSE Remove(order, newPath)[i]]
  ELSE Remove(order, newPath)

moveTrackerState(oldPath, newPath) ==
  LET state == trackerState[oldPath]
      index == IndexOf(accessOrder, oldPath)
  IN /\ lastMove.n < MaxMoves
     /\ lastMove' = [n |-> lastMove.n + 1, old |-> oldPath, new |-> newPath,
                     same |-> (oldPath = newPath), hadOld |-> state.present,
                     stateOld |-> state.id, posOld |-> index, fresh |-> TRUE]
     /\ IF oldPath = newPath
        THEN UNCHANGED <<trackerState, accessOrder, useOrder>>
        ELSE IF state.present
        THEN /\ trackerState' = [trackerState EXCEPT ![oldPath] = NoState, ![newPath] = state]
             /\ accessOrder' = IF index # 0 THEN [accessOrder EXCEPT ![index] = newPath]
                               ELSE accessOrder
             /\ useOrder' = Renamed(useOrder, oldPath, newPath)
        ELSE /\ trackerState' = [trackerState EXCEPT ![newPath] = NoState]
             /\ accessOrder' = RemoveFirst(accessOrder, newPath)
             /\ useOrder' = Remove(useOrder, newPath)
     /\ UNCHANGED <<ensures, loadCount, vaultVars, cacheVars, writeVars, codec, stats>>

(***************************************************************************)
(* The vault tree getAbstractFileByPath resolves paths in: folder F holds  *)
(* a.md, the file n.txt and folder G; G holds b.md; c.md lies outside.     *)
(***************************************************************************)
Children == [F |-> <<"a.md", "n.txt", "G">>, G |-> <<"b.md">>]

Folders == DOMAIN Children

Extension == [p \in Paths \cup {"n.txt"} |-> IF p \in Paths THEN "md" ELSE "txt"]

\* the arguments of invalidateCacheForFolder: two folders, a file, and a path
\* getAbstractFileByPath resolves to null
FolderArgs == Folders \cup {"c.md", "X"}

\* clearTrackerState on the map and the order given
Cleared(st, path) ==
  [state |-> [p \in Paths |-> IF p = path THEN NoState ELSE st.state[p]],
   order |-> RemoveFirst(st.order, path),
   use |-> Remove(st.use, path)]

\* clearCacheForFolder, lines 108-116, child after child
RECURSIVE clearCacheForFolder(_, _)
clearCacheForFolder(st, children) ==
  IF children = <<>> THEN st
  ELSE clearCacheForFolder(
         IF Head(children) \in DOMAIN Extension
         THEN IF Extension[Head(children)] = "md" THEN Cleared(st, Head(children)) ELSE st
         ELSE IF Head(children) \in Folders
         THEN clearCacheForFolder(st, Children[Head(children)])
         ELSE st,
         Tail(children))

\* lines 96-106
invalidateCacheForFolder(folderPath) ==
  LET st == [state |-> trackerState, order |-> accessOrder, use |-> useOrder]
      out == IF folderPath \in Folders THEN clearCacheForFolder(st, Children[folderPath])
             ELSE st
  IN /\ trackerState' = out.state
     /\ accessOrder' = out.order
     /\ useOrder' = out.use
     /\ lastMove' = Followed(lastMove)
     /\ UNCHANGED <<ensures, loadCount, vaultVars, cacheVars, writeVars, codec, stats>>

\* moveTrackerState, lines 121-140, on the map and the order given
Moved(st, oldPath, newPath) ==
  IF oldPath = newPath THEN st
  ELSE IF st.state[oldPath].present
  THEN [state |-> [p \in Paths |-> IF p = oldPath THEN NoState
                                   ELSE IF p = newPath THEN st.state[oldPath]
                                   ELSE st.state[p]],
        order |-> IF IndexOf(st.order, oldPath) # 0
                  THEN [st.order EXCEPT ![IndexOf(st.order, oldPath)] = newPath]
                  ELSE st.order,
        use |-> Renamed(st.use, oldPath, newPath)]
  ELSE Cleared(st, newPath)

\* the for loop of lines 146-148 over the pairs of the map in insertion order
RECURSIVE MovedAll(_, _)
MovedAll(st, pairs) ==
  IF pairs = <<>> THEN st
  ELSE MovedAll(Moved(st, Head(pairs)[1], Head(pairs)[2]), Tail(pairs))

\* the maps of renames of two documents in which the new path of one pair is
\* the old path of the other: the swaps, and the chains in both orders of
\* insertion
RenameMaps ==
  {m \in (Paths \X Paths) \X (Paths \X Paths) :
     /\ m[1][1] # m[1][2] /\ m[2][1] # m[2][2]
     /\ m[1][1] # m[2][1] /\ m[1][2] # m[2][2]
     /\ (m[1][2] = m[2][1] \/ m[2][2] = m[1][1])}

updateTrackerStateAfterRename(newPathsMap) ==
  LET out == MovedAll([state |-> trackerState, order |-> accessOrder, use |-> useOrder],
                      newPathsMap)
  IN /\ trackerState' = out.state
     /\ accessOrder' = out.order
     /\ useOrder' = out.use
     /\ lastMove' = Followed(lastMove)
     /\ UNCHANGED <<ensures, loadCount, vaultVars, cacheVars, writeVars, codec, stats>>

IdleCodec == [pc |-> "idle", data |-> EmptyLedger, yaml |-> <<>>, parsed |-> EmptyLedger]

InitStateManager ==
  /\ trackerState = [p \in Paths |-> NoState]
  /\ accessOrder = <<>>
  /\ useOrder = <<>>
  /\ ensures = [c \in EnsureIds |-> IdleEnsure]
  /\ loadCount = 0
  /\ lastMove = NoMove

\* no call of the cache, of the file service or of the state manager is made
InitServices ==
  /\ now = 0
  /\ cacheKeys = <<>>
  /\ cacheEnt = [p \in Paths |-> NoEntry]
  /\ gets = [c \in GetIds |-> IdleGet]
  /\ getCalls = 0
  /\ modifyGuards = FALSE
  /\ writers = [w \in Writers |-> IdleWriter]
  /\ modCount = 0
  /\ ioFailures = 0
  /\ writeCalls = 0
  /\ InitStateManager

InitIdle ==
  /\ InitServices
  /\ codec = IdleCodec
  /\ stats = IdleStats

\* the vault holds doc under WPath; the other documents are not written to
InitVault(doc) ==
  /\ vault = [p \in Paths |-> IF p = WPath THEN doc ELSE DocMiddleEmpty]
  /\ stat = [p \in Paths |-> StatOf(vault[p])]

\* one caller writes and reads one document, one call after the other or
\* with a read under way while the write runs
MaxFileWrites == 1

InitFile ==
  /\ \E doc \in InitialDocs : InitVault(doc)
  /\ InitIdle

NextFile ==
  \/ \E d \in Dates, v \in WriteValues :
       writeCalls < MaxFileWrites /\ WriteStart(1, d, v)
  \/ WriteRead(1)
  \/ WriteModify(1)
  \/ GetStart(1, "entries", WPath)
  \/ GetRead(1)
  \/ GetFinish(1)
  \/ (now < MaxFileTime /\ Tick)

SpecFile == InitFile /\ [][NextFile]_vars

\* the entry readAllEntries left in the cache for a document of text doc
PrimedEntry(doc) ==
  [NoEntry EXCEPT !.present = TRUE, !.size = Len(doc), !.hasEntries = TRUE,
                  !.entries = LoadEntries(doc)]

\* two callers write the same document; the cache may hold its ledger
InitWrite ==
  /\ \E doc \in InitialDocs :
       /\ InitVault(doc)
       /\ \E primed \in BOOLEAN :
            /\ cacheKeys = IF primed THEN <<WPath>> ELSE <<>>
            /\ cacheEnt = [p \in Paths |->
                 IF primed /\ p = WPath THEN PrimedEntry(doc) ELSE NoEntry]
  /\ now = 0
  /\ gets = [c \in GetIds |-> IdleGet]
  /\ getCalls = 0
  /\ modifyGuards = FALSE
  /\ writers = [w \in Writers |-> IdleWriter]
  /\ modCount = 0
  /\ ioFailures = 0
  /\ writeCalls = 0
  /\ InitStateManager
  /\ codec = IdleCodec
  /\ stats = IdleStats

ConcurrentValues == {<<"7">>, <<BS>>}

\* the calls are numbered in the order they start
NextWrite ==
  \/ \E w \in Writers, d \in Dates, v \in ConcurrentValues :
       /\ writers[w].pc = "idle"
       /\ \A x \in Writers : x < w => writers[x].pc # "idle"
       /\ WriteStart(w, d, v)
  \/ \E w \in Writers : WriteRead(w)
  \/ \E w \in Writers : WriteReadFail(w)
  \/ \E w \in Writers : WriteModify(w)
  \/ \E w \in Writers : WriteModifyFail(w)
  \/ setModifyGuards

SpecWrite == InitWrite /\ [][NextWrite]_vars

(***************************************************************************)
(* The codec applied to a ledger: formatDataToYaml, then                   *)
(* parseFrontmatterData on the text it gave.                               *)
(***************************************************************************)
CodecChars == {"a", "7", BS, DQ, NL, SP}

\* the texts of 1..n characters
Words(n) == UNION {[1..k -> CodecChars] : k \in 1..n}

\* the values a ledger holds are those parseMaybeNumber returns: a number, or
\* a text that is not the text of a number
LedgerValues ==
  {Num(n) : n \in {0, 7, 12}}
    \cup {Str(s) : s \in {x \in Words(MaxValueLen) : parseMaybeNumber(x) = Str(x)}}

Ledgers == UNION {[D -> LedgerValues] : D \in SUBSET Dates}

InitCodec ==
  /\ \E data \in Ledgers : codec = [IdleCodec EXCEPT !.data = data]
  /\ \E doc \in {DocMiddleEmpty} : InitVault(doc)
  /\ now = 0
  /\ cacheKeys = <<>>
  /\ cacheEnt = [p \in Paths |-> NoEntry]
  /\ gets = [c \in GetIds |-> IdleGet]
  /\ getCalls = 0
  /\ modifyGuards = FALSE
  /\ writers = [w \in Writers |-> IdleWriter]
  /\ modCount = 0
  /\ ioFailures = 0
  /\ writeCalls = 0
  /\ InitStateManager
  /\ stats = IdleStats

\* formatDataToYaml(data)
FormatData ==
  /\ codec.pc = "idle"
  /\ codec' = [codec EXCEPT !.pc = "formatted", !.yaml = formatDataToYaml(codec.data)]
  /\ UNCHANGED <<vaultVars, cacheVars, writeVars, smVars, stats>>

ParseData ==
  /\ codec.pc = "formatted"
  /\ codec' = [codec EXCEPT !.pc = "parsed", !.parsed = parseFrontmatterData(codec.yaml)]
  /\ UNCHANGED <<vaultVars, cacheVars, writeVars, smVars, stats>>

NextCodec ==
  \/ FormatData
  \/ ParseData

SpecCodec == InitCodec /\ [][NextCodec]_vars

(***************************************************************************)
(* TrackerDataCache under getEntries and getFrontmatter calls made one     *)
(* after the other, invalidation, the clock and edits of the document      *)
(* WPath made outside the plugin.                                          *)
(***************************************************************************)
InitCache ==
  /\ \E doc \in {DocLastLines} : InitVault(doc)
  /\ InitIdle

NextCache ==
  \/ \E p \in Paths : GetStart(1, "entries", p)
  \/ GetStart(1, "frontmatter", WPath)
  \/ GetRead(1)
  \/ GetReadFail(1)
  \/ GetFinish(1)
  \/ \E p \in Paths : Invalidate(p)
  \/ InvalidateAll
  \/ Tick
  \/ ExternalEdit(WPath)
  \/ ExternalTouch(WPath)

SpecCache == InitCache /\ [][NextCache]_vars

(***************************************************************************)
(* StateManager with every operation run to completion before the next     *)
(* one starts.                                                             *)
(***************************************************************************)
InitState ==
  /\ \E doc \in {DocMiddleEmpty} : InitVault(doc)
  /\ InitIdle

NoEnsureInFlight == \A c \in EnsureIds : ensures[c].pc # "loading"

NextState ==
  \/ \E p \in Paths : NoEnsureInFlight /\ EnsureStart(1, p)
  \/ EnsureFinish(1)
  \/ \E p \in Paths : NoEnsureInFlight /\ clearTrackerState(p)
  \/ (NoEnsureInFlight /\ clearAllCaches)
  \/ \E oldPath, newPath \in Paths : NoEnsureInFlight /\ moveTrackerState(oldPath, newPath)

SpecState == InitState /\ [][NextState]_vars

(***************************************************************************)
(* Every operation of StateManager, each run to completion, renames of     *)
(* several documents and the invalidation of a folder included.            *)
(***************************************************************************)
MaxManagerLoads == 2

MaxManagerMoves == 1

NextManager ==
  \/ \E p \in Paths :
       NoEnsureInFlight /\ loadCount < MaxManagerLoads /\ EnsureStart(1, p)
  \/ EnsureFinish(1)
  \/ \E p \in Paths : NoEnsureInFlight /\ clearTrackerState(p)
  \/ (NoEnsureInFlight /\ clearAllCaches)
  \/ \E oldPath, newPath \in Paths :
       /\ NoEnsureInFlight /\ lastMove.n < MaxManagerMoves
       /\ moveTrackerState(oldPath, newPath)
  \/ \E newPathsMap \in RenameMaps :
       NoEnsureInFlight /\ updateTrackerStateAfterRename(newPathsMap)
  \/ \E folderPath \in FolderArgs : NoEnsureInFlight /\ invalidateCacheForFolder(folderPath)

SpecManager == InitState /\ [][NextManager]_vars

(***************************************************************************)
(* Two callers of ensureTrackerState: a call may start, and                *)
(* clearTrackerState may run, while another call awaits its loads.         *)
(***************************************************************************)
NextEnsure ==
  \/ \E c \in EnsureIds, p \in Paths : EnsureStart(c, p)
  \/ \E c \in EnsureIds : EnsureFinish(c)
  \/ \E p \in Paths : clearTrackerState(p)

SpecEnsure == InitState /\ [][NextEnsure]_vars

(***************************************************************************)
(* One caller reads the entries or the options of the document WPath, or   *)
(* writes a value to it, and the storage may fail a read.                  *)
(***************************************************************************)
InitFailure ==
  /\ \E doc \in {DocLastLines, DocNoHeader} : InitVault(doc)
  /\ InitIdle

NextFailure ==
  \/ GetStart(1, "entries", WPath)
  \/ GetStart(1, "frontmatter", WPath)
  \/ GetRead(1)
  \/ GetReadFail(1)
  \/ GetFinish(1)
  \/ \E d \in Dates : writeCalls < MaxFileWrites /\ WriteStart(1, d, <<"7">>)
  \/ WriteRead(1)
  \/ WriteReadFail(1)
  \/ WriteModify(1)

SpecFailure == InitFailure /\ [][NextFailure]_vars

(***************************************************************************)
(* calculateStreaks called once on a ledger of the last days before the    *)
(* end date, whose keys are written in keyFormat.                          *)
(***************************************************************************)
\* the end date of the calls: 2024-02-02, so that the days before it are of
\* another month
EndDay == DayNumber(2024, 2, 2)

NUMBER == <<"n", "u", "m", "b", "e", "r">>

\* the configured date format and the format the keys of the ledger are in
FormatPairs == {<<ISO, ISO>>, <<ISO, DMY>>, <<DMY, DMY>>, <<MDY, ISO>>}

\* the ledger that holds days[d] under the text of day d in keyFormat, for
\* the days that have a value
LedgerOf(days, keyFormat) ==
  [k \in {DateFormat(DateAt(d, 0), keyFormat) : d \in {x \in DOMAIN days : days[x] # Null}}
     |-> days[CHOOSE d \in DOMAIN days : DateFormat(DateAt(d, 0), keyFormat) = k]]

\* the days of the ledgers of the streak calls
StreakSpan == 3

StreakDays == (EndDay - (StreakSpan - 1))..EndDay

StreakValues == {Null, Num(0), Num(1)}

\* the creation dates: none, 10 days and 12 days before the end date
StreakCtimes == {<<>>, <<DateAt(EndDay - 10, 1)>>, <<DateAt(EndDay - 12, 0)>>}

\* trackingStartDate of the frontmatter: absent, the date 10 days or 20 days
\* before the end date in the configured format, or a text that is no date
StreakOverrides(dateFormat) ==
  {<<>>, <<DateFormat(DateAt(EndDay - 10, 0), dateFormat)>>,
   <<DateFormat(DateAt(EndDay - 20, 0), dateFormat)>>, <<<<"x">>>>}

InitStreak ==
  /\ \E doc \in {DocMiddleEmpty} : InitVault(doc)
  /\ InitServices
  /\ codec = IdleCodec
  /\ \E days \in [StreakDays -> StreakValues], fp \in FormatPairs,
        trackerType \in {GOOD_HABIT, BAD_HABIT, NUMBER},
        endDate \in {DateAt(EndDay, 0), DateAt(EndDay, 1), InvalidDate},
        ctime \in StreakCtimes :
       \E startTrackingDateStr \in StreakOverrides(fp[1]) :
         stats = [IdleStats EXCEPT !.pc = "streakArgs", !.days = days,
                                   !.keyFormat = fp[2],
                                   !.entries = LedgerOf(days, fp[2]),
                                   !.dateFormat = fp[1], !.trackerType = trackerType,
                                   !.endDate = endDate, !.ctime = ctime,
                                   !.startTrackingDateStr = startTrackingDateStr]

\* calculateStreaks(entries, settings, endDate, trackerType, file, startTrackingDateStr)
CalculateStreaks ==
  /\ stats.pc = "streakArgs"
  /\ stats' = [stats EXCEPT !.pc = "streaks",
                            !.streaks = calculateStreaks(stats.entries, stats.dateFormat,
                                          stats.endDate, stats.trackerType, stats.ctime,
                                          stats.startTrackingDateStr)]
  /\ UNCHANGED <<vaultVars, cacheVars, writeVars, smVars, codec>>

\* TrackerFileService.calculateStreak(entries, settings, endDate, trackerType,
\* file), called with the date of a day
CalculateStreak ==
  /\ stats.pc = "streakArgs"
  /\ stats.endDate.valid
  /\ stats' = [stats EXCEPT !.pc = "streak",
                            !.streak = calculateStreak(stats.entries, stats.dateFormat,
                                         stats.endDate, stats.trackerType, stats.ctime)]
  /\ UNCHANGED <<vaultVars, cacheVars, writeVars, smVars, codec>>

NextStreak ==
  \/ CalculateStreaks
  \/ CalculateStreak

SpecStreak == InitStreak /\ [][NextStreak]_vars

(***************************************************************************)
(* calculateStatistics and calculateStats called once for a window that    *)
(* ends on the end date, with the tracker type getFileTypeFromFrontmatter  *)
(* reads from the document.                                                *)
(***************************************************************************)
FOO == <<"f", "o", "o">>

\* a tracker document whose header gives the type, if any, and no entries
DocOfType(typeWritten) ==
  Document((IF typeWritten = <<>> THEN <<>>
            ELSE Field(<<"t", "y", "p", "e">>) \o <<SP, DQ>> \o typeWritten[1] \o <<DQ, NL>>)
           \o EmptyDataLine)

\* the members of TrackerType the documents of the model use
TrackerTypes == {GOOD_HABIT, BAD_HABIT, NUMBER, TEXT}

\* the types written in the documents: none, the members of TrackerType the
\* statistics tell apart, and a text that is none of them
WrittenTypes == {<<>>, <<GOOD_HABIT>>, <<BAD_HABIT>>, <<NUMBER>>, <<TEXT>>, <<FOO>>}

\* the days the ledgers of the window calls may have an entry for: the end
\* date and the day two days before it
StatDays == {EndDay - 2, EndDay}

StatValues == {Null, Num(0), Num(1), Num(3), Num(5), Str(<<"a", SP, "b">>)}

\* the lengths of the windows
ShortWindow == 1

LongWindow == 7

\* trackingStartDate as the callers pass it: absent, or the day before or the
\* day after the end date in the configured format
StatOverrides(dateFormat) ==
  {<<>>, <<DateFormat(DateAt(EndDay - 1, 0), dateFormat)>>,
   <<DateFormat(DateAt(EndDay + 1, 0), dateFormat)>>}

InitStats ==
  /\ \E doc \in {DocMiddleEmpty} : InitVault(doc)
  /\ InitServices
  /\ codec = IdleCodec
  /\ \E days \in [StatDays -> StatValues], fp \in FormatPairs,
        typeWritten \in WrittenTypes, daysToShow \in {ShortWindow, LongWindow} :
       \E startTrackingDateStr \in StatOverrides(fp[1]) :
         stats = [IdleStats EXCEPT
                    !.pc = "statArgs", !.days = days, !.keyFormat = fp[2],
                    !.entries = LedgerOf(days, fp[2]), !.dateFormat = fp[1],
                    !.typeWritten = typeWritten,
                    !.trackerType = LoadFileOpts(TRUE, DocOfType(typeWritten)).mode[1],
                    !.endDate = DateAt(EndDay, 0),
                    !.dateIso = DateFormat(DateAt(EndDay, 0), fp[1]),
                    !.daysToShow = daysToShow,
                    !.startTrackingDateStr = startTrackingDateStr]

\* StatisticsService.calculateStatistics
CalculateStatistics ==
  /\ stats.pc = "statArgs"
  /\ stats' = [stats EXCEPT
                 !.pc = "statistics",
                 !.statistics = calculateStatistics(stats.entries, stats.dateFormat,
                                  stats.dateIso, stats.daysToShow, stats.trackerType,
                                  stats.endDate, stats.ctime, stats.startTrackingDateStr)]
  /\ UNCHANGED <<vaultVars, cacheVars, writeVars, smVars, codec>>

\* VisualizationService.calculateStats
CalculateStats ==
  /\ stats.pc = "statArgs"
  /\ stats' = [stats EXCEPT
                 !.pc = "stats",
                 !.visual = calculateStats(stats.entries, stats.dateFormat, stats.dateIso,
                                           stats.daysToShow, stats.trackerType)]
  /\ UNCHANGED <<vaultVars, cacheVars, writeVars, smVars, codec>>

NextStats ==
  \/ CalculateStatistics
  \/ CalculateStats

SpecStats == InitStats /\ [][NextStats]_vars

(***************************************************************************)
(* Claims about writeLogLine and readValueForDate.                         *)
(***************************************************************************)
\* the write of call w ran with no other write in flight, and no write has
\* modified the document or is in flight since
LastWriteAlone(w) ==
  /\ writers[w].pc = "done"
  /\ writers[w].alone
  /\ writers[w].modVer = modCount
  /\ \A x \in Writers : ~InFlight(x)

\* readValueForDate call c started after call w returned and has returned
ReadAfter(c, w) ==
  /\ gets[c].pc = "done"
  /\ gets[c].kind = "entries"
  /\ gets[c].path = WPath
  /\ gets[c].readOk
  /\ gets[c].seenMod = writers[w].modVer

\* C1: after a writeLogLine(file, date, v) that completed with no other write
\* in flight, readValueForDate(file, date) returns the coerced written value:
\* the number when v parses as one, else exactly the string v.
C1_ReadReturnsWritten ==
  \A w \in Writers, c \in GetIds :
    (LastWriteAlone(w) /\ ReadAfter(c, w))
      => ValueAt(gets[c].ledger, writers[w].date) = parseMaybeNumber(writers[w].value)

\* the header lines of a document
HeaderLines(text) == SplitLines(FrontmatterMatch(text).frontmatter)

IsIndented(line) == line # <<>> /\ IsWs(line[1])

\* line i belongs to the data section: the "data:" line, or an indented line
\* with only indented lines between it and the "data:" line
InDataSection(lines, i) ==
  \E j \in 1..i :
    /\ StartsWith(lines[j], DataWord)
    /\ \A k \in (j + 1)..i : IsIndented(lines[k])

RECURSIVE OtherLinesFrom(_, _)
OtherLinesFrom(lines, i) ==
  IF i > Len(lines) THEN <<>>
  ELSE (IF InDataSection(lines, i) THEN <<>> ELSE <<lines[i]>>) \o OtherLinesFrom(lines, i + 1)

\* the header lines outside the data section, in order
OtherHeaderLines(text) == OtherLinesFrom(HeaderLines(text), 1)

\* C2: a successful writeLogLine rewrites only the data section: every other
\* header line and the body are the same in the text read and the text written.
C2_OnlyDataRewritten ==
  \A w \in Writers :
    writers[w].pc = "done"
      => /\ OtherHeaderLines(writers[w].written) = OtherHeaderLines(writers[w].raw)
         /\ FrontmatterMatch(writers[w].written).body = FrontmatterMatch(writers[w].raw).body

BothDone(a, b) ==
  /\ a # b
  /\ writers[a].pc = "done"
  /\ writers[b].pc = "done"
  /\ writers[a].date # writers[b].date
  /\ writers[a].modVer < writers[b].modVer

\* call b read the document before call a wrote it
ReadBeforeWrite(a, b) == writers[b].rdVer < writers[a].modVer

\* call b started after call a returned
Serialized(a, b) == writers[b].startVer >= writers[a].modVer

C5_MissingHeaderFails ==
  \A w \in Writers :
    (writers[w].didRead /\ ~FrontmatterMatch(writers[w].raw).ok)
      => /\ writers[w].pc = "failed"
         /\ writers[w].error = NO_FRONTMATTER
         /\ writers[w].modVer = 0
         /\ ~InSeq(writers[w].trace, "modify")
         /\ modCount = writers[w].rdVer => vault[WPath] = writers[w].raw

C5_Witness ==
  \E w \in Writers :
    /\ writers[w].pc = "failed"
    /\ writers[w].error = NO_FRONTMATTER
    /\ writers[w].didRead
    /\ ~FrontmatterMatch(vault[WPath]).ok

\* the calls of a writeLogLine call in order, at each point of the call
BracketedTrace(w) ==
  LET trace == writers[w].trace
  IN CASE writers[w].pc = "idle" -> trace = <<>>
       [] writers[w].pc = "reading" -> trace = <<"onBeforeModify">>
       [] writers[w].pc = "modifying" -> trace = <<"onBeforeModify", "read">>
       [] writers[w].pc = "done" ->
            trace = <<"onBeforeModify", "read", "modify", "invalidate", "onAfterModify">>
       [] writers[w].pc = "failed" ->
            trace \in {<<"onBeforeModify", "readThrow", "onAfterModify">>,
                       <<"onBeforeModify", "read", "onAfterModify">>,
                       <<"onBeforeModify", "read", "modifyThrow", "onAfterModify">>}

\* C10: with the guards set, a writeLogLine call calls onBeforeModify once
\* before the read and onAfterModify once after the write attempt ends, also
\* when it fails; on success the cache entry is deleted before onAfterModify;
\* the guards do not change the text written.
C10_HooksBracketWrite ==
  \A w \in Writers :
    /\ writers[w].guarded => BracketedTrace(w)
    /\ (writers[w].pc = "done" /\ writers[w].modVer = modCount) => ~cacheEnt[WPath].present
    /\ writers[w].pc \in {"modifying", "done"}
         => writers[w].written = NewContent(writers[w].raw, writers[w].date, writers[w].value)

\* a guarded call has written, and the entry the cache held is gone
C10_Witness ==
  \E w \in Writers :
    /\ writers[w].guarded
    /\ writers[w].pc = "done"
    /\ writers[w].hadEntry
    /\ ~cacheEnt[WPath].present

(***************************************************************************)
(* Claims about the codec.                                                 *)
(***************************************************************************)
\* C3: parseFrontmatterData(formatDataToYaml(m)) is m: the same dates, each
\* value of the same type and the same characters.
C3_CodecRoundTrip == codec.pc = "parsed" => codec.parsed = codec.data

(***************************************************************************)
(* Claims about TrackerDataCache.                                          *)
(***************************************************************************)
\* what the claim calls stale, on what call c saw when it started: the age of
\* the entry exceeds the TTL, or the mtime or the size of the file differs
\* from the one recorded
SawStale(c) ==
  \/ gets[c].timestamp - gets[c].old.timestamp > CACHE_TTL_MS
  \/ gets[c].mtime # gets[c].old.mtime
  \/ gets[c].size # gets[c].old.size

\* what the entry held of the part call c asked for
CachedPart(c) ==
  IF gets[c].kind = "entries" THEN [ledger |-> gets[c].old.entries, opts |-> NoOpts]
  ELSE [ledger |-> EmptyLedger, opts |-> gets[c].old.fm]

ReturnedPart(c) ==
  IF gets[c].kind = "entries" THEN [ledger |-> gets[c].ledger, opts |-> NoOpts]
  ELSE [ledger |-> EmptyLedger, opts |-> gets[c].opts]

\* C6: when the entry of the document holds the part asked for, a get calls
\* its loader if and only if the entry is stale (age over CACHE_TTL_MS, or
\* mtime differs, or size differs); a get that does not call it returns the
\* cached value.
C6_LoaderIffStale ==
  \A c \in GetIds :
    (gets[c].pc # "idle" /\ HoldsPart(gets[c].old, gets[c].kind))
      => /\ gets[c].loaded <=> SawStale(c)
         /\ ~gets[c].loaded => (gets[c].pc = "done" /\ ReturnedPart(c) = CachedPart(c))

\* a get served from an entry a tick old, with the file as recorded
C6_Witness ==
  \E c \in GetIds :
    /\ gets[c].pc = "done"
    /\ HoldsPart(gets[c].old, gets[c].kind)
    /\ ~gets[c].loaded
    /\ gets[c].timestamp - gets[c].old.timestamp = CACHE_TTL_MS
    /\ gets[c].kind = "entries"
    /\ gets[c].ledger # EmptyLedger

\* C7: TrackerDataCache never holds more than MAX_CACHE_SIZE entries.
C7_CacheSizeBounded == Len(cacheKeys) <= MAX_CACHE_SIZE

(***************************************************************************)
(* Claims about StateManager.                                              *)
(***************************************************************************)
Last(seq) == seq[Len(seq)]

\* C8: an ensureTrackerState call for a document not cached, made when the
\* cache holds MAX_CACHE_SIZE documents, removes exactly one entry, that of
\* the document ensured the longest ago; every ensureTrackerState call
\* leaves its document at the most-recently-used end of accessOrder.
C8_StrictLru ==
  \A c \in EnsureIds :
    /\ (ensures[c].pc \in {"loading", "done"} /\ ~ensures[c].hit /\ ensures[c].full)
         => ensures[c].removed = {Head(ensures[c].lruBefore)}
    /\ ensures[c].pc = "done"
         => (ensures[c].orderAfter # <<>> /\ Last(ensures[c].orderAfter) = ensures[c].path)

\* C9: after moveTrackerState(oldPath, newPath) with a state cached under
\* oldPath, newPath holds that state at oldPath's place in accessOrder and
\* oldPath holds none, so that ensureTrackerState finds it under newPath
\* without a load and loads under oldPath; with no state under oldPath,
\* newPath is in neither trackerState nor accessOrder.
C9_Rekey ==
  /\ (lastMove.fresh /\ ~lastMove.same /\ lastMove.hadOld)
       => /\ trackerState[lastMove.new] = [present |-> TRUE, id |-> lastMove.stateOld]
          /\ ~trackerState[lastMove.old].present
          /\ lastMove.posOld # 0 => accessOrder[lastMove.posOld] = lastMove.new
  /\ (lastMove.fresh /\ ~lastMove.same /\ ~lastMove.hadOld)
       => /\ ~trackerState[lastMove.new].present
          /\ ~InSeq(accessOrder, lastMove.new)
  /\ \A c \in EnsureIds :
       (ensures[c].pc # "idle" /\ ensures[c].after.fresh /\ ~ensures[c].after.same
          /\ ensures[c].after.hadOld)
         => /\ ensures[c].path = ensures[c].after.new
                 => (ensures[c].hit /\ ensures[c].state = ensures[c].after.stateOld)
            /\ ensures[c].path = ensures[c].after.old => ~ensures[c].hit

(***************************************************************************)
(* Claims about calculateStreaks.                                          *)
(***************************************************************************)
StreaksDone == stats.pc = "streaks" /\ stats.endDate.valid

IsBadHabitCall == toLowerCase(stats.trackerType) = BAD_HABIT

\* the avoidance habit with an empty ledger whose tracking starts 10 days
\* before the end date
AvoidanceEmptyTenDays ==
  /\ StreaksDone
  /\ IsBadHabitCall
  /\ stats.entries = EmptyLedger
  /\ stats.streaks.start = DateAt(EndDay - 10, 0)

\* C11 as stated: an avoidance habit with an empty ledger whose resolved
\* tracking start date is 10 days before the end date has current streak 10
\* and best streak 10.
C11_TenDaysGiveTen ==
  AvoidanceEmptyTenDays => stats.streaks.current = 10 /\ stats.streaks.best = 10

\* C11 amended: that tracker has current streak 11 and best streak 11, the
\* 11 days from the tracking start date to the end date, both included, as
\* far as MAX_DAYS_BACK allows.
C11_TenDaysGiveEleven ==
  AvoidanceEmptyTenDays =>
    /\ stats.streaks.current = Min({11, MAX_DAYS_BACK})
    /\ stats.streaks.best = Min({11, MAX_DAYS_BACK})

C11_Witness == AvoidanceEmptyTenDays /\ stats.streaks.current = 11

\* the value of day d of the ledger of the call
DayValue(d) == IF d \in DOMAIN stats.days THEN stats.days[d] ELSE Null

\* day d is a success day of the tracker of the call
SuccessDay(d) ==
  IF IsBadHabitCall THEN DayValue(d) = Null \/ ~isTrackerValueTrue(DayValue(d))
  ELSE DayValue(d) # Null /\ isTrackerValueTrue(DayValue(d))

\* the success days in a row counted backward from the end date over the
\* days first..EndDay
TrailingRun(first) ==
  Min({i \in 0..(EndDay - first) : ~SuccessDay(EndDay - i)} \cup {EndDay - first + 1})

\* an ordinary habit with a truthy entry on the end date and on the two days
\* before it, and no entry on the day before these
ThreeEntriesThenGap ==
  /\ ~IsBadHabitCall
  /\ \A d \in (EndDay - 2)..EndDay : DayValue(d) # Null /\ isTrackerValueTrue(DayValue(d))
  /\ DayValue(EndDay - 3) = Null

\* C12: the current streak is the number of success days in a row counted
\* backward from the end date down to the resolved tracking start date, and an
\* ordinary habit with entries on the end date and the two days before it and
\* none on the fourth day back has current streak 3, from calculateStreaks and
\* from calculateStreak.
C12_CurrentStreak ==
  /\ (StreaksDone /\ stats.streaks.start.valid) =>
       stats.streaks.current = TrailingRun(stats.streaks.start.day)
  /\ (StreaksDone /\ ThreeEntriesThenGap) => stats.streaks.current = 3
  /\ (stats.pc = "streak" /\ ThreeEntriesThenGap) => stats.streak = 3

\* the success days in a row counted backward from day d over first..d
RunBack(d, first) ==
  Min({i \in 0..(d - first) : ~SuccessDay(d - i)} \cup {d - first + 1})

\* the longest run of success days in a row among the days first..EndDay
LongestRun(first) == Max({RunBack(d, first) : d \in first..EndDay} \cup {0})

StartCandidates ==
  {d.day : d \in {x \in {OverrideDate(stats.startTrackingDateStr, stats.dateFormat)}
                    : x.valid}}
    \cup {stats.ctime[i].day : i \in DOMAIN stats.ctime}
    \cup {d \in DOMAIN stats.days : stats.days[d] # Null}

\* C14: the tracking start date calculateStreaks uses is the earliest of the
\* override, the creation date and the earliest day of the ledger, whatever
\* format its keys are in, and the day 365 days before the end date when there
\* is none of them.
C14_StartIsEarliest ==
  StreaksDone =>
    stats.streaks.start
      = DateAt(IF StartCandidates = {} THEN EndDay - FALLBACK_DAYS
               ELSE Min(StartCandidates), 0)

\* C20: each walk of calculateStreaks looks up at most MAX_DAYS_BACK days, and
\* an end date that is not a valid date gives current = 0 and best = 0 with no
\* day looked up.
C20_WalksBounded ==
  stats.pc = "streaks" =>
    /\ stats.streaks.examinedCurrent <= MAX_DAYS_BACK
    /\ stats.streaks.examinedBest <= MAX_DAYS_BACK
    /\ ~stats.endDate.valid =>
         /\ stats.streaks.current = 0
         /\ stats.streaks.best = 0
         /\ stats.streaks.examinedCurrent = 0
         /\ stats.streaks.examinedBest = 0

\* both walks were stopped by the cap: the tracking start date is more than
\* MAX_DAYS_BACK days before the end date and every day is a success
C20_Witness ==
  /\ StreaksDone
  /\ EndDay - stats.streaks.start.day + 1 > MAX_DAYS_BACK
  /\ stats.streaks.examinedCurrent = MAX_DAYS_BACK
  /\ stats.streaks.examinedBest = MAX_DAYS_BACK
  /\ stats.streaks.current = MAX_DAYS_BACK

(***************************************************************************)
(* Claims about the windowed statistics.                                   *)
(***************************************************************************)
StatisticsDone == stats.pc = "statistics"

\* the statistics record of the call, habit or metric
Windowed ==
  IF stats.statistics.habit # <<>> THEN stats.statistics.habit[1]
  ELSE stats.statistics.metric[1]

\* the day the i-th value of periodDays is the value of: the window ends on
\* the end date
WindowDay(periodDays, i) == EndDay - Len(periodDays) + i

\* the keys of the ledger are written in a fallback format that is not the
\* configured format
KeysInFallbackFormat ==
  /\ stats.keyFormat # stats.dateFormat
  /\ stats.keyFormat \in {ISO, DMY, MDY}
  /\ stats.entries # EmptyLedger

\* C15: the streak computation and the windowed habit and metric statistics
\* find the value of a day whose key is written in a fallback format: the
\* current streak counts the success days of the ledger, and each value of
\* periodDays is the normalized value the ledger holds for its day.
C15_LookupAnyFormat ==
  StatisticsDone =>
    /\ stats.statistics.streaks.current
         = Min({TrailingRun(stats.statistics.streaks.start.day), MAX_DAYS_BACK})
    /\ \A i \in 1..Len(Windowed.periodDays) :
         Windowed.periodDays[i]
           = IF stats.statistics.habit # <<>>
             THEN HabitVal(DayValue(WindowDay(Windowed.periodDays, i)), IsBadHabitCall)
             ELSE NumVal(DayValue(WindowDay(Windowed.periodDays, i)),
                         toLowerCase(stats.trackerType) = TEXT)

\* the first day of the window of the call: the later of the day
\* daysToShow - 1 days before the end date and the tracking start date
WindowFirst ==
  Max({EndDay - (stats.daysToShow - 1)}
      \cup {DateParse(stats.startTrackingDateStr[i], stats.dateFormat).day
            : i \in DOMAIN stats.startTrackingDateStr})

\* the normalized values the ledger holds for the days of the window
WindowValues ==
  [i \in 1..Max({EndDay - WindowFirst + 1, 0}) |->
     NumVal(DayValue(WindowFirst + i - 1), toLowerCase(stats.trackerType) = TEXT)]

\* a window of 7 days with 5 on the end date and 3 two days before it
FiveAndThree ==
  /\ stats.daysToShow = 7
  /\ stats.startTrackingDateStr = <<>>
  /\ toLowerCase(stats.trackerType) = NUMBER
  /\ DayValue(EndDay) = Num(5)
  /\ DayValue(EndDay - 2) = Num(3)

\* C16: the metric statistics are those of the values of the days from the
\* later of the window start and the tracking start to the end date, absent
\* days counting as 0; 5 on the end date and 3 two days before it in a window
\* of 7 days give 7 days, sum 8, 2 active days, min 0, max 5 and median 0; with
\* no day, min, max and median are null and avg is 0.
C16_MetricWindow ==
  (StatisticsDone /\ stats.statistics.metric # <<>>) =>
    /\ Windowed.periodDays = WindowValues
    /\ Windowed.actualDaysCount = Len(WindowValues)
    /\ Windowed.sum = SumSeq(WindowValues)
    /\ Windowed.avg.num * Windowed.actualDaysCount = Windowed.sum * Windowed.avg.den
    /\ Windowed.activeDays = Cardinality({i \in DOMAIN WindowValues : WindowValues[i] > 0})
    /\ WindowValues # <<>> =>
         /\ Windowed.min = <<Min({WindowValues[i] : i \in DOMAIN WindowValues})>>
         /\ Windowed.max = <<Max({WindowValues[i] : i \in DOMAIN WindowValues})>>
         /\ Windowed.median
              = <<IF Len(WindowValues) % 2 = 1
                  THEN Frac(SortNumbers(WindowValues)[(Len(WindowValues) + 1) \div 2], 1)
                  ELSE Frac(SortNumbers(WindowValues)[Len(WindowValues) \div 2]
                            + SortNumbers(WindowValues)[Len(WindowValues) \div 2 + 1], 2)>>
    /\ WindowValues = <<>> =>
         /\ Windowed.min = <<>>
         /\ Windowed.max = <<>>
         /\ Windowed.median = <<>>
         /\ Windowed.avg = Frac(0, 1)
    /\ FiveAndThree =>
         /\ Windowed.actualDaysCount = 7
         /\ Windowed.sum = 8
         /\ Windowed.activeDays = 2
         /\ Windowed.min = <<0>>
         /\ Windowed.max = <<5>>
         /\ Windowed.median = <<Frac(0, 1)>>

\* the value of day d for an avoidance habit: 1 when the ledger has no entry
\* for the day or an entry that normalizes to 0
AvoidanceValue(d) ==
  IF DayValue(d) = Null \/ NumVal(DayValue(d), FALSE) = 0 THEN 1 ELSE 0

\* C17: for an avoidance habit, a day of the window is active exactly when the
\* ledger has no entry for it or an entry that normalizes to 0, in the habit
\* statistics and in calculateStats; completionRate is activeDays /
\* actualDaysCount x 100, 0 with no day; 0 <= activeDays <= actualDaysCount <=
\* the length of the window.
C17_AvoidanceWindow ==
  /\ (StatisticsDone /\ IsBadHabitCall) =>
       /\ stats.statistics.habit # <<>>
       /\ \A i \in 1..Len(Windowed.periodDays) :
            Windowed.periodDays[i] = AvoidanceValue(WindowDay(Windowed.periodDays, i))
       /\ Windowed.activeDays
            = Cardinality({i \in 1..Len(Windowed.periodDays) : Windowed.periodDays[i] = 1})
       /\ Windowed.completionRate
            = IF Windowed.actualDaysCount = 0 THEN Frac(0, 1)
              ELSE Frac(Windowed.activeDays * 100, Windowed.actualDaysCount)
       /\ 0 <= Windowed.activeDays
       /\ Windowed.activeDays <= Windowed.actualDaysCount
       /\ Windowed.actualDaysCount <= stats.daysToShow
  /\ (stats.pc = "stats" /\ IsBadHabitCall) =>
       \A i \in 1..Len(stats.visual.periodDays) :
         stats.visual.periodDays[i] = AvoidanceValue(WindowDay(stats.visual.periodDays, i))

\* the document of the call gives no type, or a type that is no member of
\* TrackerType
UnknownTypeWritten ==
  /\ stats.pc \in {"statArgs", "statistics", "stats"}
  /\ (stats.typeWritten = <<>> \/ stats.typeWritten[1] \notin TrackerTypes)

\* C18: getFileTypeFromFrontmatter resolves mode to a member of TrackerType,
\* good-habit for an unknown or missing type, and calculateStatistics returns
\* the habit statistics of a good habit, not metric statistics, for it.
C18_UnknownTypeIsGoodHabit ==
  /\ stats.pc \in {"statArgs", "statistics", "stats"} => stats.trackerType \in TrackerTypes
  /\ UnknownTypeWritten => stats.trackerType = GOOD_HABIT
  /\ (UnknownTypeWritten /\ StatisticsDone) =>
       /\ stats.statistics.habit # <<>>
       /\ stats.statistics.metric = <<>>
       /\ \A i \in 1..Len(Windowed.periodDays) : Windowed.periodDays[i] \in {0, 1}

(***************************************************************************)
(* Claims about storage failures.                                          *)
(***************************************************************************)
\* the read of get call c failed and the call has returned
ReturnedAfterReadFailure(c) ==
  gets[c].pc = "done" /\ gets[c].loaded /\ ~gets[c].readOk

\* C19: a read that fails in the loader of readAllEntries or of
\* getFileTypeFromFrontmatter is not thrown to the caller: the call returns the
\* empty ledger, or the default options (mode good-habit, no bounds); a read
\* that fails in writeLogLine is thrown to the caller and the document is not
\* written.
C19_ReadFailureDegrades ==
  /\ \A c \in GetIds :
       /\ gets[c].pc \in {"idle", "loading", "read", "done"}
       /\ (gets[c].pc = "read" /\ ~gets[c].readOk) => ENABLED GetFinish(c)
       /\ (ReturnedAfterReadFailure(c) /\ gets[c].kind = "entries") =>
            gets[c].ledger = EmptyLedger
       /\ (ReturnedAfterReadFailure(c) /\ gets[c].kind = "frontmatter") =>
            gets[c].opts = [NoOpts EXCEPT !.mode = <<GOOD_HABIT>>]
  /\ \A w \in Writers :
       InSeq(writers[w].trace, "readThrow") =>
         /\ writers[w].pc = "failed"
         /\ writers[w].error = STORAGE_ERROR
         /\ ~InSeq(writers[w].trace, "modify")
         /\ modCount = writers[w].startVer

\* the read of a document that holds an entry failed and readAllEntries
\* returned
C19_Witness ==
  /\ ReturnedAfterReadFailure(1)
  /\ gets[1].kind = "entries"
  /\ LoadEntries(vault[WPath]) # EmptyLedger

(***************************************************************************)
(* Two callers read the entries and the options of the document WPath      *)
(* through the cache while a third writes it and it is edited outside the  *)
(* plugin; a read of a loader may fail, and every change of the text       *)
(* changes the mtime or the size of the document.                          *)
(***************************************************************************)
FreshValues == {<<"7">>}

StampChanges ==
  vault'[WPath] # vault[WPath] =>
    (stat'[WPath].mtime # stat[WPath].mtime \/ stat'[WPath].size # stat[WPath].size)

InitFresh ==
  /\ \E doc \in {DocLastLines} : InitVault(doc)
  /\ InitIdle

NextFresh ==
  \/ GetStart(1, "entries", WPath)
  \/ GetStart(2, "frontmatter", WPath)
  \/ \E c \in GetIds : GetRead(c)
  \/ GetReadFail(1)
  \/ \E c \in GetIds : GetFinish(c)
  \/ \E v \in FreshValues :
       writeCalls < MaxFileWrites /\ WriteStart(1, Date1, v)
  \/ WriteRead(1)
  \/ (WriteModify(1) /\ StampChanges)
  \/ (ExternalEdit(WPath) /\ StampChanges)
  \/ (now < MaxFileTime /\ Tick)

SpecFresh == InitFresh /\ [][NextFresh]_vars

(***************************************************************************)
(* One caller writes one document, one writeLogLine after the other.       *)
(***************************************************************************)
\* the values written: a number, a backslash, and the pattern "$&" of
\* String.prototype.replace
SuccessiveValues ==
  {<<"7">>, <<BS>>, <<"$", "&">>}

LedgerDocs == {DocMiddleEmpty, DocLastLines, DocNoData}

InitLedger ==
  /\ \E doc \in LedgerDocs : InitVault(doc)
  /\ InitIdle

NextLedger ==
  \/ \E d \in Dates, v \in SuccessiveValues : WriteStart(1, d, v)
  \/ WriteRead(1)
  \/ WriteModify(1)

SpecLedger == InitLedger /\ [][NextLedger]_vars

\* the key a line of the data section lists, as lines 32-38 of
\* parseFrontmatterData read it; no key for a blank line or a comment
LineKey(line) ==
  The({IF trimmed = <<>> \/ StartsWith(trimmed, <<"#">>) \/ trimmed = EmptyObject
    THEN <<>>
    ELSE The({The({IF m.ok THEN <<Trim(m.key)>> ELSE <<>>
               : m \in {IF match.ok THEN match ELSE BareKeyMatch(trimmed)}})
             : match \in {QuotedKeyMatch(trimmed)}})
      : trimmed \in {Trim(line)}})

RECURSIVE LineKeys(_)
LineKeys(lines) ==
  The({IF ls = <<>> THEN <<>> ELSE LineKey(Head(ls)) \o LineKeys(Tail(ls))
      : ls \in {lines}})

\* the keys the data section of a header lists, in the order of its lines
ListedKeys(frontmatter) ==
  The({IF ~dataMatch.ok \/ ~dataMatch.hasGroup THEN <<>>
    ELSE LineKeys(SplitLines(SubSeq(frontmatter, dataMatch.gs, dataMatch.ge - 1)))
      : dataMatch \in {DataMatch(frontmatter)}})

\* each key once and in ascending order of Array.prototype.sort
Ascending(keys) ==
  \A i \in 1..(Len(keys) - 1) : StrLess(keys[i], keys[i + 1])

HeaderOf(text) == FrontmatterMatch(text).frontmatter

\* C21: after any sequence of successful writeLogLine calls on a document, in
\* any order of dates, the data section of the document lists each date key
\* exactly once and in ascending order of the key strings, and a ledger with
\* no entry is written as "data: {}".
C21_KeysOnceAscending ==
  \A w \in Writers :
    LastWriteAlone(w) =>
      /\ Ascending(ListedKeys(HeaderOf(vault[WPath])))
      /\ ListedKeys(HeaderOf(vault[WPath])) = <<>> => HasEmptyData(HeaderOf(vault[WPath]))

\* C30: a successful writeLogLine for a date leaves the value of every other
\* date unchanged: readValueForDate gives for it, on the text written, the
\* value (same type, same characters) it gave on the text read.
C30_OtherDatesUnchanged ==
  \A w \in Writers :
    writers[w].pc = "done" =>
      \A d \in Dates \ {writers[w].date} :
        ValueAt(LoadEntries(writers[w].written), d) = ValueAt(LoadEntries(writers[w].raw), d)

(***************************************************************************)
(* Claims about the invalidation of a folder and the renames of several    *)
(* documents.                                                              *)
(***************************************************************************)
\* the markdown documents under the children given, at any depth
RECURSIVE MarkdownUnder(_)
MarkdownUnder(children) ==
  IF children = <<>> THEN {}
  ELSE (IF Head(children) \in Folders THEN MarkdownUnder(Children[Head(children)])
        ELSE IF Head(children) \in Paths THEN {Head(children)}
        ELSE {})
         \cup MarkdownUnder(Tail(children))

\* the occurrences in order of the paths that are not in the set given
Outside(order, inside) == SelectSeq(order, LAMBDA p : p \notin inside)

\* C22: invalidateCacheForFolder(folder) removes from trackerState and from
\* accessOrder the entry of every markdown document under the folder, at any
\* depth, and leaves the entries and the relative order of the documents
\* outside it as they were; nothing changes when the path is not a folder.
C22_FolderInvalidation ==
  [][\A folderPath \in FolderArgs :
       invalidateCacheForFolder(folderPath) =>
         IF folderPath \in Folders
         THEN /\ \A p \in MarkdownUnder(Children[folderPath]) :
                   ~trackerState'[p].present /\ ~InSeq(accessOrder', p)
              /\ \A p \in Paths \ MarkdownUnder(Children[folderPath]) :
                   trackerState'[p] = trackerState[p]
              /\ Outside(accessOrder', MarkdownUnder(Children[folderPath]))
                   = Outside(accessOrder, MarkdownUnder(Children[folderPath]))
         ELSE UNCHANGED <<trackerState, accessOrder>>]_vars

\* C23: with every operation of StateManager run to completion, accessOrder
\* holds every key of trackerState exactly once and no other path.
C23_OrderMatchesState ==
  NoEnsureInFlight =>
    \A p \in Paths :
      Cardinality({i \in 1..Len(accessOrder) : accessOrder[i] = p})
        = IF trackerState[p].present THEN 1 ELSE 0

\* C28: updateTrackerStateAfterRename(M) is one simultaneous substitution: for
\* every pair (old -> new) of M with a state cached under old before the call,
\* new holds that state after the call.
C28_SimultaneousRename ==
  [][\A newPathsMap \in RenameMaps :
       updateTrackerStateAfterRename(newPathsMap) =>
         \A i \in 1..Len(newPathsMap) :
           trackerState[newPathsMap[i][1]].present =>
             trackerState'[newPathsMap[i][2]] = trackerState[newPathsMap[i][1]]]_vars

(***************************************************************************)
(* Claims about ensureTrackerState calls that overlap.                     *)
(***************************************************************************)
\* C25: a load of ensureTrackerState(path) that awaits its storage read when
\* clearTrackerState(path) runs does not install its result in trackerState,
\* so that no state read before the clear is returned after it.
C25_NoInstallAfterClear ==
  \A c \in EnsureIds :
    (ensures[c].pc = "done" /\ ~ensures[c].hit /\ ensures[c].cleared)
      => trackerState[ensures[c].path] # [present |-> TRUE, id |-> ensures[c].state]

\* C26: trackerState never holds more than MAX_CACHE_SIZE entries, also when
\* several ensureTrackerState calls for documents not cached await their
\* loads at the same time.
C26_StateSizeBounded == Size(trackerState) <= MAX_CACHE_SIZE

(***************************************************************************)
(* Claims about what TrackerDataCache stores.                              *)
(***************************************************************************)
\* C29: a read that failed in a loader is not cached as data: once the call
\* has returned the empty ledger or the default options, the cache holds no
\* fresh entry with that part for the document, so that the next call for
\* the unchanged document within the TTL reads the storage again.
C29_FailureNotCached ==
  \A c \in GetIds :
    ReturnedAfterReadFailure(c) =>
      ~(HoldsPart(cacheEnt[gets[c].path], gets[c].kind)
          /\ ~isStale(gets[c].path, cacheEnt[gets[c].path]))

\* call c has returned the entries without invoking its loader, and the
\* document was not modified since
ServedFromCache(c) ==
  /\ gets[c].pc = "done"
  /\ gets[c].kind = "entries"
  /\ ~gets[c].loaded
  /\ gets[c].seenMod = modCount

\* C27: when getEntries returns without invoking its loader, the ledger it
\* returns is the decode of the current text of the document, in every
\* interleaving of the gets, writeLogLine and edits made outside, every change
\* of the text changing the mtime or the size.
C27_CachedLedgerIsCurrent ==
  \A c \in GetIds :
    ServedFromCache(c) => gets[c].ledger = LoadEntries(vault[gets[c].path])

\* getEntries and getFrontmatter of the same document overlapped on a cache
\* miss, their reads succeeded and both have returned, the document unchanged
\* and the clock too
BothLoadedOnMiss(c1, c2) ==
  /\ gets[c1].pc = "done" /\ gets[c1].kind = "entries" /\ gets[c1].loaded
  /\ gets[c2].pc = "done" /\ gets[c2].kind = "frontmatter" /\ gets[c2].loaded
  /\ gets[c1].readOk /\ gets[c2].readOk
  /\ gets[c1].path = gets[c2].path
  /\ ~gets[c1].old.present /\ ~gets[c2].old.present
  /\ modCount = 0
  /\ now = gets[c1].timestamp /\ now = gets[c2].timestamp

\* C24: when getEntries and getFrontmatter of the same unchanged document are
\* started together on a cache miss and both complete, the cache entry holds
\* the ledger and the options, and is fresh, so that the next getEntries and
\* the next getFrontmatter return without invoking their loaders.
C24_BothPartsCached ==
  \A c1, c2 \in GetIds :
    BothLoadedOnMiss(c1, c2) =>
      /\ HoldsPart(cacheEnt[gets[c1].path], "entries")
      /\ HoldsPart(cacheEnt[gets[c1].path], "frontmatter")
      /\ ~isStale(gets[c1].path, cacheEnt[gets[c1].path])

=============================================================================
